---------------------------- MODULE Spec2Model ----------------------------
(***************************************************************************)
(* GroceryVault: the intent authorization and spend-policy engine.         *)
(*                                                                         *)
(* The contract's storage is the state; every external function is one     *)
(* action.  A transaction is atomic: a failing require (or an arithmetic   *)
(* panic) reverts every storage write the call made before it.  Amounts    *)
(* are uint256 in the contract and are scaled here to 0..UintMax, keeping  *)
(* the checked arithmetic of Solidity 0.8 (an overflowing + panics).       *)
(* Time is block.timestamp in seconds.                                     *)
(***************************************************************************)
EXTENDS Integers, Sequences, FiniteSets, TLC

VARIABLES
    policyOf,         \* mapping(address => Policy)
    merchantAllowed,  \* mapping(address => mapping(address => bool))
    agentAllowed,     \* mapping(address => mapping(address => bool))
    spend,            \* mapping(address => SpendWindow)
    nonces,           \* mapping(address => uint256)
    intentUsed,       \* mapping(bytes32 => bool), as the set of keys mapped to true
    now,              \* block.timestamp of the next transaction
    executed,         \* the IntentExecuted events emitted so far, with their block time
    inflight,         \* transactions built off-chain and not yet mined, by slot
    ledger,           \* the token transfers that took effect, in order
    last              \* the last call: its inputs and its outcome

vars == <<policyOf, merchantAllowed, agentAllowed, spend, nonces, intentUsed,
          now, executed, inflight, ledger, last>>

storageVars == <<policyOf, merchantAllowed, agentAllowed, spend, nonces, intentUsed>>

---------------------------------------------------------------------------
(* Bounds of the model *)

\* largest value of the scaled uint256 amounts
UintMax == 5
\* successful intents per account after which no further intent is submitted
MaxNonce == 2
\* off-chain transactions that can be in flight at once
NumSlots == 2
\* successful intents of the account whose spend windows are followed over time
MaxSpends == 3
\* token transfers after which no further deposit or withdrawal is made
MaxLedger == 2

---------------------------------------------------------------------------
(* Addresses *)

Null == 0        \* address(0)
Alice == 1       \* an account owner
Bob == 2         \* another account owner
Agent == 3       \* the backend's session key
Shop == 4        \* a merchant
Mall == 5        \* another merchant
Stranger == 6    \* what ecrecover yields for a digest the signature was not made over
USDC == 7        \* the token
Vault == 8       \* address(this)
DAI == 9         \* another token

Addrs == {Alice, Bob, Agent, Shop, Mall}

---------------------------------------------------------------------------
(* Time *)

SevenDays == 604800
ThirtyDays == 2592000
OneHour == 3600
Genesis == 1000

\* the instants at which blocks are mined in the model
Instants ==
    { Genesis,
      Genesis + OneHour + 1,
      Genesis + SevenDays - 1,
      Genesis + SevenDays,
      Genesis + ThirtyDays - 2,
      Genesis + ThirtyDays,
      Genesis + ThirtyDays + SevenDays - 2 }

---------------------------------------------------------------------------
(* Types *)

ZeroPolicy == [monthlyCap |-> 0, weeklyCap |-> 0, perTxCap |-> 0, requireUserSig |-> FALSE]

ZeroWindow == [weekStart |-> 0, weekSpent |-> 0, monthStart |-> 0, monthSpent |-> 0]

MkIntent(user, merchant, token, amount, deadline, cartHash, nonce) ==
    [user |-> user, merchant |-> merchant, token |-> token, amount |-> amount,
     deadline |-> deadline, cartHash |-> cartHash, nonce |-> nonce]

NoIntent == MkIntent(Null, Null, Null, 0, 0, 0, 0)

---------------------------------------------------------------------------
(* EIP-712 hashing and signatures *)

\* the domain separator of this deployment, and that of another one
ThisDomain == "GroceryVault/1/chain/this"
OtherDomain == "GroceryVault/1/chain/other"

\* cartHash left out of the struct hash
HashIntentIn_noCartHash(domain, intent) ==
    <<domain, intent.user, intent.merchant, intent.token, intent.amount,
      intent.deadline, 0, intent.nonce>>

\* keccak256 is collision resistant: the digest is the tuple it was computed from
HashIntentIn(domain, intent) ==
    <<domain, intent.user, intent.merchant, intent.token, intent.amount,
      intent.deadline, intent.cartHash, intent.nonce>>

_hashIntent(intent) == HashIntentIn(ThisDomain, intent)

\* userSig values.  len is the byte length; a 65-byte signature was made by the
\* holder of signer's key over digest (signer = Null: r, s, v are no signature)
EmptySig == [len |-> 0, signer |-> Null, digest |-> <<>>]
ShortSig == [len |-> 64, signer |-> Null, digest |-> <<>>]
SignedBy(signer, digest) == [len |-> 65, signer |-> signer, digest |-> digest]
JunkSig == SignedBy(Null, <<>>)
\* a 65-byte owner signature sent with one byte appended
LongSig(signer, digest) == [len |-> 66, signer |-> signer, digest |-> digest]

ecrecover(digest, sig) ==
    IF sig.signer = Null THEN Null
    ELSE IF sig.digest = digest THEN sig.signer
    ELSE Stranger

\* the length check left out
_verifyUserSig_anyLength(intent, sig) ==
    ecrecover(_hashIntent(intent), sig) = intent.user

\* a recovery that fails (address 0) taken for a match
_verifyUserSig_nullAccepted(intent, sig) ==
    IF sig.len # 65 THEN FALSE
    ELSE LET recovered == ecrecover(_hashIntent(intent), sig)
         IN  recovered = intent.user \/ recovered = Null

_verifyUserSig(intent, sig) ==
    IF sig.len # 65 THEN FALSE
    ELSE ecrecover(_hashIntent(intent), sig) = intent.user

---------------------------------------------------------------------------
(* The contract's storage (and the token's ledger) as one value, so that a  *)
(* call can run on a working copy that is kept on success and thrown away   *)
(* when the call reverts.                                                   *)

Storage ==
    [policyOf |-> policyOf, merchantAllowed |-> merchantAllowed,
     agentAllowed |-> agentAllowed, spend |-> spend, nonces |-> nonces,
     intentUsed |-> intentUsed, ledger |-> ledger]

\* a token transfer: the function that asked for it, the account it was
\* made for (msg.sender, or intent.user in executeIntent), and what moved
Transfer(by, account, token, from, to, amount) ==
    [by |-> by, account |-> account, token |-> token, from |-> from, to |-> to,
     amount |-> amount]

\* the outcome of a call: the error ("ok" when none) and the working storage
Outcome(err, st) == [err |-> err, st |-> st]

---------------------------------------------------------------------------
(* Spend windows *)

\* the first call starts the week and leaves the month unset
_rollWindowsIfNeeded_weekOnly(w, t) ==
    IF w.weekStart = 0
    THEN [w EXCEPT !.weekStart = t]
    ELSE LET w1 == IF t >= w.weekStart + SevenDays
                   THEN [w EXCEPT !.weekStart = t, !.weekSpent = 0]
                   ELSE w
         IN  IF t >= w1.monthStart + ThirtyDays
             THEN [w1 EXCEPT !.monthStart = t, !.monthSpent = 0]
             ELSE w1

_rollWindowsIfNeeded(w, t) ==
    IF w.weekStart = 0
    THEN [w EXCEPT !.weekStart = t, !.monthStart = t]
    ELSE LET w1 == IF t >= w.weekStart + SevenDays
                   THEN [w EXCEPT !.weekStart = t, !.weekSpent = 0]
                   ELSE w
         IN  IF t >= w1.monthStart + ThirtyDays
             THEN [w1 EXCEPT !.monthStart = t, !.monthSpent = 0]
             ELSE w1

\* the elapsed week not looked at: the stored counter is returned as it is
_viewRolledWeek_stale(weekStart, weekSpent, t) ==
    IF weekStart = 0 THEN <<0, 0>> ELSE <<weekStart, weekSpent>>

_viewRolledWeek(weekStart, weekSpent, t) ==
    IF weekStart = 0 THEN <<0, 0>>
    ELSE IF t >= weekStart + SevenDays THEN <<t, 0>>
    ELSE <<weekStart, weekSpent>>

_viewRolledMonth(monthStart, monthSpent, t) ==
    IF monthStart = 0 THEN <<0, 0>>
    ELSE IF t >= monthStart + ThirtyDays THEN <<t, 0>>
    ELSE <<monthStart, monthSpent>>

\* the views, on the current storage at the current block time
remainingWeekly(user) ==
    LET p == policyOf[user]
        w == spend[user]
        spent == _viewRolledWeek(w.weekStart, w.weekSpent, now)[2]
    IN  IF spent >= p.weeklyCap THEN 0 ELSE p.weeklyCap - spent

remainingMonthly(user) ==
    LET p == policyOf[user]
        w == spend[user]
        spent == _viewRolledMonth(w.monthStart, w.monthSpent, now)[2]
    IN  IF spent >= p.monthlyCap THEN 0 ELSE p.monthlyCap - spent

---------------------------------------------------------------------------
(* executeIntent *)

\* the nonce not compared: only the used-intent check is left
ReplayError_noNonce(st, intent) ==
    IF _hashIntent(intent) \in st.intentUsed THEN "IntentAlreadyUsed" ELSE "ok"

\* the replay protection left out: no nonce check, no used-intent check
ReplayError_dropped(st, intent) == "ok"

\* the used-intent check left out: only the nonce is compared
ReplayError_noUsed(st, intent) ==
    IF intent.nonce # st.nonces[intent.user] THEN "StaleNonce" ELSE "ok"

\* lines 152-157: the nonce and the used-intent checks
ReplayError(st, intent) ==
    IF intent.nonce # st.nonces[intent.user] THEN "StaleNonce"
    ELSE IF _hashIntent(intent) \in st.intentUsed THEN "IntentAlreadyUsed"
    ELSE "ok"

\* the owner and the allowlisted agent let through before requireUserSig is read
Authorized_callerFirst(st, p, sender, intent, userSig) ==
    \/ sender = intent.user
    \/ st.agentAllowed[intent.user][sender]
    \/ _verifyUserSig(intent, userSig)

\* the signature of a privileged caller not looked at
Authorized_sigIgnored(st, p, sender, intent, userSig) ==
    IF p.requireUserSig
    THEN _verifyUserSig(intent, userSig)
    ELSE \/ sender = intent.user
         \/ st.agentAllowed[intent.user][sender]
         \/ _verifyUserSig(intent, userSig)

\* a signature demanded of every caller
Authorized_sigAlways(st, p, sender, intent, userSig) ==
    _verifyUserSig(intent, userSig)

\* lines 162-177: who may execute
Authorized(st, p, sender, intent, userSig) ==
    LET callerIsUser == (sender = intent.user)
        callerIsAgent == st.agentAllowed[intent.user][sender]
    IN  IF p.requireUserSig
        THEN _verifyUserSig(intent, userSig)
        ELSE IF ~(callerIsUser \/ callerIsAgent)
             THEN _verifyUserSig(intent, userSig)
             ELSE IF userSig.len > 0
                  THEN _verifyUserSig(intent, userSig)
                  ELSE TRUE

\* the value returned by the token's transfer not looked at
SpendAndTransfer_uncheckedTransfer(st, p, t, intent, transferOk) ==
    LET user == intent.user
        s2 == [st EXCEPT !.spend[user] = _rollWindowsIfNeeded(@, t)]
        w == s2.spend[user]
    IN  IF w.weekSpent + intent.amount > UintMax THEN Outcome("Panic", s2)
        ELSE IF ~(w.weekSpent + intent.amount <= p.weeklyCap)
        THEN Outcome("WeeklyCapExceeded", s2)
        ELSE IF w.monthSpent + intent.amount > UintMax THEN Outcome("Panic", s2)
        ELSE IF ~(w.monthSpent + intent.amount <= p.monthlyCap)
        THEN Outcome("MonthlyCapExceeded", s2)
        ELSE LET s3 == [s2 EXCEPT !.spend[user].weekSpent = @ + intent.amount,
                                  !.spend[user].monthSpent = @ + intent.amount,
                                  !.nonces[user] = @ + 1]
             IN  IF ~transferOk THEN Outcome("ok", s3)
                 ELSE Outcome("ok", [s3 EXCEPT !.ledger =
                                        Append(@, Transfer("executeIntent", user,
                                                           intent.token, Vault,
                                                           intent.merchant,
                                                           intent.amount))])

\* lines 179-192: roll the window, check the caps, write the effects, transfer
SpendAndTransfer(st, p, t, intent, transferOk) ==
    LET user == intent.user
        s2 == [st EXCEPT !.spend[user] = _rollWindowsIfNeeded(@, t)]
        w == s2.spend[user]
    IN  IF w.weekSpent + intent.amount > UintMax THEN Outcome("Panic", s2)
        ELSE IF ~(w.weekSpent + intent.amount <= p.weeklyCap)
        THEN Outcome("WeeklyCapExceeded", s2)
        ELSE IF w.monthSpent + intent.amount > UintMax THEN Outcome("Panic", s2)
        ELSE IF ~(w.monthSpent + intent.amount <= p.monthlyCap)
        THEN Outcome("MonthlyCapExceeded", s2)
        ELSE LET s3 == [s2 EXCEPT !.spend[user].weekSpent = @ + intent.amount,
                                  !.spend[user].monthSpent = @ + intent.amount,
                                  !.nonces[user] = @ + 1]
             IN  IF ~transferOk THEN Outcome("TransferFailed", s3)
                 ELSE Outcome("ok", [s3 EXCEPT !.ledger =
                                        Append(@, Transfer("executeIntent", user,
                                                           intent.token, Vault,
                                                           intent.merchant,
                                                           intent.amount))])

\* the merchant looked up in the allowlist of the caller, not of the account
Run_merchantOfCaller(st, t, sender, intent, userSig, transferOk) ==
    IF ~(t <= intent.deadline) THEN Outcome("Expired", st)
    ELSE IF intent.user = Null THEN Outcome("InvalidIntent", st)
    ELSE IF ~(intent.amount > 0) THEN Outcome("InvalidIntent", st)
    ELSE LET p == st.policyOf[intent.user] IN
    IF ~(intent.amount <= p.perTxCap) THEN Outcome("PerTxCapExceeded", st)
    ELSE IF ~st.merchantAllowed[sender][intent.merchant]
    THEN Outcome("MerchantNotAllowed", st)
    ELSE IF ReplayError(st, intent) # "ok" THEN Outcome(ReplayError(st, intent), st)
    ELSE LET s1 == [st EXCEPT !.intentUsed = @ \cup {_hashIntent(intent)}] IN
    IF ~Authorized(s1, p, sender, intent, userSig) THEN Outcome("Unauthorized", s1)
    ELSE SpendAndTransfer(s1, p, t, intent, transferOk)

\* a per-transaction cap of zero read as no cap
Run_zeroIsNoCap(st, t, sender, intent, userSig, transferOk) ==
    IF ~(t <= intent.deadline) THEN Outcome("Expired", st)
    ELSE IF intent.user = Null THEN Outcome("InvalidIntent", st)
    ELSE IF ~(intent.amount > 0) THEN Outcome("InvalidIntent", st)
    ELSE LET p == st.policyOf[intent.user] IN
    IF ~(intent.amount <= p.perTxCap \/ p.perTxCap = 0)
    THEN Outcome("PerTxCapExceeded", st)
    ELSE IF ~st.merchantAllowed[intent.user][intent.merchant]
    THEN Outcome("MerchantNotAllowed", st)
    ELSE IF ReplayError(st, intent) # "ok" THEN Outcome(ReplayError(st, intent), st)
    ELSE LET s1 == [st EXCEPT !.intentUsed = @ \cup {_hashIntent(intent)}] IN
    IF ~Authorized(s1, p, sender, intent, userSig) THEN Outcome("Unauthorized", s1)
    ELSE SpendAndTransfer(s1, p, t, intent, transferOk)

\* the body of executeIntent run on storage st at block time t
Run(st, t, sender, intent, userSig, transferOk) ==
    IF ~(t <= intent.deadline) THEN Outcome("Expired", st)
    ELSE IF intent.user = Null THEN Outcome("InvalidIntent", st)
    ELSE IF ~(intent.amount > 0) THEN Outcome("InvalidIntent", st)
    ELSE LET p == st.policyOf[intent.user] IN
    IF ~(intent.amount <= p.perTxCap) THEN Outcome("PerTxCapExceeded", st)
    ELSE IF ~st.merchantAllowed[intent.user][intent.merchant]
    THEN Outcome("MerchantNotAllowed", st)
    ELSE IF ReplayError(st, intent) # "ok" THEN Outcome(ReplayError(st, intent), st)
    ELSE LET s1 == [st EXCEPT !.intentUsed = @ \cup {_hashIntent(intent)}] IN
    IF ~Authorized(s1, p, sender, intent, userSig) THEN Outcome("Unauthorized", s1)
    ELSE SpendAndTransfer(s1, p, t, intent, transferOk)

\* a failing check that returns an error without undoing the writes before it
Settle_keep(pre, out) == out.st

\* the EVM keeps the writes of a call that returns and discards those of one
\* that reverts
Settle(pre, out) == IF out.err = "ok" THEN out.st ELSE pre

\* executeIntent as a transaction on the current storage
Call(sender, intent, userSig, transferOk) ==
    LET out == Run(Storage, now, sender, intent, userSig, transferOk)
    IN  [err |-> out.err, st |-> Settle(Storage, out)]

IntentExecuted(intent, t) ==
    [intentId |-> _hashIntent(intent), user |-> intent.user,
     merchant |-> intent.merchant, token |-> intent.token,
     amount |-> intent.amount, time |-> t]

---------------------------------------------------------------------------
(* The record of the last call *)

\* the outcome of the call just before this one, when that was executeIntent
\* with the same sender, intent and signature ("none" otherwise)
PrevAttempt(sender, intent, userSig) ==
    IF /\ last.op = "executeIntent"
       /\ last.sender = sender /\ last.intent = intent /\ last.userSig = userSig
    THEN last.err
    ELSE "none"

Last(op, sender, intent, userSig, transferOk, arg, err) ==
    [op |-> op, sender |-> sender, intent |-> intent, userSig |-> userSig,
     transferOk |-> transferOk, arg |-> arg, err |-> err,
     prev |-> IF op = "executeIntent" THEN PrevAttempt(sender, intent, userSig)
              ELSE "none"]

NoSlot == [status |-> "free", sender |-> Null, intent |-> NoIntent,
           userSig |-> EmptySig, err |-> "none"]

---------------------------------------------------------------------------
(* Initial state: a freshly deployed contract *)

Init ==
    /\ policyOf = [a \in Addrs |-> ZeroPolicy]
    /\ merchantAllowed = [a \in Addrs |-> [m \in Addrs |-> FALSE]]
    /\ agentAllowed = [a \in Addrs |-> [m \in Addrs |-> FALSE]]
    /\ spend = [a \in Addrs |-> ZeroWindow]
    /\ nonces = [a \in Addrs |-> 0]
    /\ intentUsed = {}
    /\ now = Genesis
    /\ executed = <<>>
    /\ inflight = [s \in 1..NumSlots |-> NoSlot]
    /\ ledger = <<>>
    /\ last = [op |-> "deploy", sender |-> Null, intent |-> NoIntent,
               userSig |-> EmptySig, transferOk |-> FALSE, arg |-> 0,
               err |-> "ok", prev |-> "none"]

---------------------------------------------------------------------------
(* Actions: one per external function *)

\* the sanity check of the caps left out
setPolicy_unchecked(sender, p) ==
    /\ policyOf' = [policyOf EXCEPT ![sender] = p]
    /\ last' = Last("setPolicy", sender, NoIntent, EmptySig, FALSE, p, "ok")
    /\ UNCHANGED <<merchantAllowed, agentAllowed, spend, nonces, intentUsed,
                   now, executed, inflight, ledger>>

\* a policy write that starts the spend window of the account afresh
setPolicy_resetWindow(sender, p) ==
    /\ IF p.perTxCap <= p.weeklyCap /\ p.perTxCap <= p.monthlyCap
       THEN /\ policyOf' = [policyOf EXCEPT ![sender] = p]
            /\ spend' = [spend EXCEPT ![sender] = ZeroWindow]
            /\ last' = Last("setPolicy", sender, NoIntent, EmptySig, FALSE, p, "ok")
       ELSE /\ policyOf' = policyOf
            /\ spend' = spend
            /\ last' = Last("setPolicy", sender, NoIntent, EmptySig, FALSE, p,
                            "InvalidPolicy")
    /\ UNCHANGED <<merchantAllowed, agentAllowed, nonces, intentUsed,
                   now, executed, inflight, ledger>>

setPolicy(sender, p) ==
    /\ IF p.perTxCap <= p.weeklyCap /\ p.perTxCap <= p.monthlyCap
       THEN /\ policyOf' = [policyOf EXCEPT ![sender] = p]
            /\ last' = Last("setPolicy", sender, NoIntent, EmptySig, FALSE, p, "ok")
       ELSE /\ policyOf' = policyOf
            /\ last' = Last("setPolicy", sender, NoIntent, EmptySig, FALSE, p,
                            "InvalidPolicy")
    /\ UNCHANGED <<merchantAllowed, agentAllowed, spend, nonces, intentUsed,
                   now, executed, inflight, ledger>>

\* the two keys of the allowlist taken in the wrong order
setMerchantAllowed_swapped(sender, merchant, allowed) ==
    /\ merchantAllowed' = [merchantAllowed EXCEPT ![merchant][sender] = allowed]
    /\ last' = Last("setMerchantAllowed", sender, NoIntent, EmptySig, FALSE,
                    <<merchant, allowed>>, "ok")
    /\ UNCHANGED <<policyOf, agentAllowed, spend, nonces, intentUsed,
                   now, executed, inflight, ledger>>

setMerchantAllowed(sender, merchant, allowed) ==
    /\ merchantAllowed' = [merchantAllowed EXCEPT ![sender][merchant] = allowed]
    /\ last' = Last("setMerchantAllowed", sender, NoIntent, EmptySig, FALSE,
                    <<merchant, allowed>>, "ok")
    /\ UNCHANGED <<policyOf, agentAllowed, spend, nonces, intentUsed,
                   now, executed, inflight, ledger>>

setAgentAllowed(sender, agent, allowed) ==
    /\ agentAllowed' = [agentAllowed EXCEPT ![sender][agent] = allowed]
    /\ last' = Last("setAgentAllowed", sender, NoIntent, EmptySig, FALSE,
                    <<agent, allowed>>, "ok")
    /\ UNCHANGED <<policyOf, merchantAllowed, spend, nonces, intentUsed,
                   now, executed, inflight, ledger>>

\* deposit: the token moves amount from the caller to the vault
deposit(sender, token, amount, transferOk) ==
    /\ Len(ledger) < MaxLedger
    /\ LET err == IF ~(amount > 0) THEN "ZeroAmount"
                  ELSE IF ~transferOk THEN "TransferFailed"
                  ELSE "ok"
       IN  /\ ledger' = IF err = "ok"
                        THEN Append(ledger, Transfer("deposit", sender, token, sender,
                                                     Vault, amount))
                        ELSE ledger
           /\ last' = Last("deposit", sender, NoIntent, EmptySig, transferOk,
                           <<token, amount>>, err)
    /\ UNCHANGED <<storageVars, now, executed, inflight>>

\* withdraw: the token moves amount from the vault to the recipient
withdraw(sender, token, amount, to, transferOk) ==
    /\ Len(ledger) < MaxLedger
    /\ LET err == IF to = Null THEN "ZeroRecipient"
                  ELSE IF ~(amount > 0) THEN "ZeroAmount"
                  ELSE IF ~transferOk THEN "TransferFailed"
                  ELSE "ok"
       IN  /\ ledger' = IF err = "ok"
                        THEN Append(ledger, Transfer("withdraw", sender, token, Vault,
                                                     to, amount))
                        ELSE ledger
           /\ last' = Last("withdraw", sender, NoIntent, EmptySig, transferOk,
                           <<token, amount, to>>, err)
    /\ UNCHANGED <<storageVars, now, executed, inflight>>

\* the public getter of nonces, as the clients call it before building an intent
getNonce(sender, user) ==
    /\ last' = Last("nonces", sender, NoIntent, EmptySig, FALSE, <<user, nonces[user]>>,
                    "ok")
    /\ UNCHANGED <<storageVars, now, executed, inflight, ledger>>

\* the public getters of the policy and of the two allowlists
getPolicy(sender, user) ==
    /\ last' = Last("policyOf", sender, NoIntent, EmptySig, FALSE,
                    <<user, policyOf[user]>>, "ok")
    /\ UNCHANGED <<storageVars, now, executed, inflight, ledger>>

isMerchantAllowed(sender, user, merchant) ==
    /\ last' = Last("merchantAllowed", sender, NoIntent, EmptySig, FALSE,
                    <<user, merchant, merchantAllowed[user][merchant]>>, "ok")
    /\ UNCHANGED <<storageVars, now, executed, inflight, ledger>>

isAgentAllowed(sender, user, agent) ==
    /\ last' = Last("agentAllowed", sender, NoIntent, EmptySig, FALSE,
                    <<user, agent, agentAllowed[user][agent]>>, "ok")
    /\ UNCHANGED <<storageVars, now, executed, inflight, ledger>>

\* a client calls the two views for user
viewRemaining(sender, user) ==
    /\ last' = Last("remaining", sender, NoIntent, EmptySig, FALSE,
                    <<user, remainingWeekly(user), remainingMonthly(user)>>, "ok")
    /\ UNCHANGED <<storageVars, now, executed, inflight, ledger>>

\* the storage and the event log after executeIntent
Transact(sender, intent, userSig, transferOk) ==
    LET c == Call(sender, intent, userSig, transferOk)
    IN  /\ policyOf' = c.st.policyOf
        /\ merchantAllowed' = c.st.merchantAllowed
        /\ agentAllowed' = c.st.agentAllowed
        /\ spend' = c.st.spend
        /\ nonces' = c.st.nonces
        /\ intentUsed' = c.st.intentUsed
        /\ ledger' = c.st.ledger
        /\ executed' = IF c.err = "ok"
                       THEN Append(executed, IntentExecuted(intent, now))
                       ELSE executed
        /\ last' = Last("executeIntent", sender, intent, userSig, transferOk, 0, c.err)

executeIntent(sender, intent, userSig, transferOk) ==
    /\ intent.user # Null => nonces[intent.user] < MaxNonce
    /\ Transact(sender, intent, userSig, transferOk)
    /\ UNCHANGED <<now, inflight>>

\* executeIntent for an account that has committed fewer than limit intents
executeIntentUpTo(limit, sender, intent, userSig, transferOk) ==
    /\ nonces[intent.user] < limit
    /\ Transact(sender, intent, userSig, transferOk)
    /\ UNCHANGED <<now, inflight>>

\* time passes between blocks
Tick(t) ==
    /\ t > now
    /\ now' = t
    /\ last' = Last("tick", Null, NoIntent, EmptySig, FALSE, t, "ok")
    /\ UNCHANGED <<storageVars, executed, inflight, ledger>>

---------------------------------------------------------------------------
(* The off-chain clients (executePurchaseIntent, agent.js): read the nonce, *)
(* build the intent, send the transaction; it is mined later.              *)

Slots == 1..NumSlots

Cart1 == 11
Cart2 == 12

\* executePurchaseIntent up to the sending of the transaction.  signed: the
\* owner's signature over the intent was collected and is passed as userSig
buildIntent(slot, sender, userAddress, merchant, amount, cart, signed) ==
    /\ inflight[slot].status = "free"
    /\ nonces[userAddress] < MaxNonce
    /\ LET nonce == nonces[userAddress]
           intent == MkIntent(userAddress, merchant, USDC, amount,
                              now + OneHour, cart, nonce)
           userSig == IF signed THEN SignedBy(userAddress, _hashIntent(intent))
                      ELSE EmptySig
       IN  inflight' = [inflight EXCEPT ![slot] =
                           [status |-> "sent", sender |-> sender, intent |-> intent,
                            userSig |-> userSig, err |-> "none"]]
    /\ last' = Last("buildIntent", sender, NoIntent, EmptySig, FALSE, slot, "ok")
    /\ UNCHANGED <<storageVars, now, executed, ledger>>

\* the transaction of a slot is mined: executeIntent runs on the chain
mine(slot, transferOk) ==
    /\ inflight[slot].status = "sent"
    /\ LET tx == inflight[slot]
       IN  /\ Transact(tx.sender, tx.intent, tx.userSig, transferOk)
           /\ inflight' = [inflight EXCEPT ![slot].status = "done",
                              ![slot].err = Call(tx.sender, tx.intent, tx.userSig,
                                                 transferOk).err]
    /\ UNCHANGED now

---------------------------------------------------------------------------
(* Inputs *)

\* deadlines: one that passes after the first hour, one that never passes
Near == Genesis + OneHour
Far == Genesis + ThirtyDays + ThirtyDays

Generous == [monthlyCap |-> UintMax, weeklyCap |-> UintMax, perTxCap |-> UintMax,
             requireUserSig |-> FALSE]
Tight == [monthlyCap |-> 2, weeklyCap |-> 2, perTxCap |-> 2, requireUserSig |-> FALSE]
SigOnly == [Generous EXCEPT !.requireUserSig = TRUE]
TooHigh == [monthlyCap |-> 2, weeklyCap |-> 1, perTxCap |-> 2, requireUserSig |-> FALSE]

\* the intent a client builds for user in the current state
BaseIntent(user) == MkIntent(user, Shop, USDC, 1, Far, Cart1, nonces[user])

\* the intents that differ from i in at most one field
Variation(i) ==
    {i}
    \cup { [i EXCEPT !.amount = a] : a \in {0, 2, UintMax} }
    \cup { [i EXCEPT !.nonce = n] : n \in 0..MaxNonce }
    \cup { [i EXCEPT !.user = u] : u \in {Null, Bob} }
    \cup { [i EXCEPT !.merchant = Mall], [i EXCEPT !.deadline = Near],
           [i EXCEPT !.cartHash = Cart2] }

\* the signatures a caller can pass with intent i
SigInputs(i) ==
    { EmptySig, ShortSig, JunkSig,
      SignedBy(i.user, _hashIntent(i)),
      LongSig(i.user, _hashIntent(i)),
      SignedBy(Agent, _hashIntent(i)),
      SignedBy(i.user, _hashIntent([i EXCEPT !.amount = i.amount + 1])),
      SignedBy(i.user, HashIntentIn(OtherDomain, i)) }

---------------------------------------------------------------------------
(* Spec: one account, every failure of executeIntent, replays, time *)

SpecInstants == {Genesis, Genesis + OneHour + 1, Genesis + SevenDays}

\* the calls of executeIntent: <<sender, intent, userSig, transferOk>>
SpecCalls ==
    LET b == BaseIntent(Alice)
    IN  { <<Agent, i, EmptySig, TRUE>> : i \in Variation(b) }
        \cup { <<Agent, [b EXCEPT !.amount = a], EmptySig, FALSE>> : a \in {1, 2, UintMax} }
        \cup { <<Bob, b, EmptySig, TRUE>>,
               <<Bob, b, SignedBy(Alice, _hashIntent(b)), TRUE>>,
               <<Alice, b, ShortSig, TRUE>> }

Next ==
    \/ \E p \in {Generous, Tight, TooHigh} : setPolicy(Alice, p)
    \/ \E allowed \in BOOLEAN : setMerchantAllowed(Alice, Shop, allowed)
    \/ \E allowed \in BOOLEAN : setAgentAllowed(Alice, Agent, allowed)
    \/ \E c \in SpecCalls : executeIntent(c[1], c[2], c[3], c[4])
    \/ \E t \in SpecInstants : Tick(t)

Spec == Init /\ [][Next]_vars

---------------------------------------------------------------------------
(* Reading the state *)

\* the last step was a call of executeIntent
Executing == last.op = "executeIntent"

\* the intent hashes consumed by account a (the digest names its account)
ConsumedBy(a) == { h \in intentUsed : h[2] = a }

\* the events of the log that carry intent hash h
EventsOf(h) == { k \in DOMAIN executed : executed[k].intentId = h }

---------------------------------------------------------------------------
(* C1: no intent (identical account, merchant, token, amount, deadline,     *)
(* cartHash, nonce) is committed more than once: the event log never holds  *)
(* two IntentExecuted events of the same intent hash.                       *)
C1_NoIntentCommitsTwice ==
    \A j, k \in DOMAIN executed :
        executed[j].intentId = executed[k].intentId => j = k

\* an intent that was committed before is submitted again and is refused
C1_Witness ==
    /\ Executing
    /\ last.err # "ok"
    /\ EventsOf(_hashIntent(last.intent)) # {}

---------------------------------------------------------------------------
(* C8: a failed ledger transfer fails the call with TransferFailed and      *)
(* leaves nonce, consumed set and spend window as they were; the identical  *)
(* intent submitted again right after, with a transfer that succeeds,       *)
(* commits.                                                                 *)
C8_TransferFailedRollsBack ==
    [][ /\ (last'.op = "executeIntent" /\ ~last'.transferOk) => last'.err # "ok"
        /\ (last'.op = "executeIntent" /\ last'.err = "TransferFailed")
            => /\ UNCHANGED <<nonces, intentUsed, spend>>
               /\ ~last'.transferOk
        /\ (/\ last'.op = "executeIntent"
            /\ last'.prev = "TransferFailed"
            /\ last'.transferOk)
            => /\ last'.err = "ok"
               /\ nonces'[last'.intent.user] = nonces[last'.intent.user] + 1
               /\ _hashIntent(last'.intent) \in intentUsed'
      ]_vars

\* the resubmission of an intent whose transfer had failed has committed
C8_Witness ==
    /\ Executing
    /\ last.prev = "TransferFailed"
    /\ last.err = "ok"
    /\ executed # <<>>
    /\ executed[Len(executed)].intentId = _hashIntent(last.intent)

---------------------------------------------------------------------------
(* C9: a call of executeIntent that fails, at whichever check, leaves the   *)
(* nonce, consumed set, spend window, policy and allowlists of every        *)
(* account unchanged, and emits no event.                                   *)
C9_FailureChangesNothing ==
    [][ (last'.op = "executeIntent" /\ last'.err # "ok")
            => UNCHANGED <<policyOf, merchantAllowed, agentAllowed, spend, nonces,
                           intentUsed, executed>>
      ]_vars

\* a cap failure found after the week had rolled: the stored window is still
\* the one from before the call, although its week is over
C9_Witness ==
    /\ Executing
    /\ last.intent.user # Null
    /\ last.err \in {"WeeklyCapExceeded", "MonthlyCapExceeded", "Panic"}
    /\ spend[last.intent.user].weekStart # 0
    /\ now >= spend[last.intent.user].weekStart + SevenDays
    /\ spend[last.intent.user].weekSpent > 0

\* an authorization failure, found after the intent hash was marked used
C9_WitnessUnauthorized ==
    /\ Executing
    /\ last.err = "Unauthorized"
    /\ _hashIntent(last.intent) \notin intentUsed

---------------------------------------------------------------------------
(* C10: in every reachable state the nonce of every account equals the      *)
(* number of consumed intent hashes of that account.                        *)
C10_NonceCountsConsumed ==
    \A a \in Addrs : nonces[a] = Cardinality(ConsumedBy(a))

\* calls have committed and a later one has failed past the marking of its hash
C10_Witness ==
    /\ Executing
    /\ last.err \in {"Unauthorized", "WeeklyCapExceeded", "MonthlyCapExceeded",
                     "Panic", "TransferFailed"}
    /\ last.intent.user # Null
    /\ nonces[last.intent.user] > 0

---------------------------------------------------------------------------
(* SpecAuth: one account, every caller role with every kind of signature *)

AuthSenders == {Alice, Agent, Bob}

\* the intents of SpecAuth: the one a client builds, one with another cart, and
\* the same with the first nonce (a past one, once the account has spent) and
\* with the nonce after the current one
AuthIntents ==
    {BaseIntent(Alice), [BaseIntent(Alice) EXCEPT !.cartHash = Cart2]}
    \cup { [BaseIntent(Alice) EXCEPT !.nonce = n] : n \in {0, nonces[Alice] + 1} }

NextAuth ==
    \/ \E p \in {Generous, SigOnly} : setPolicy(Alice, p)
    \/ setMerchantAllowed(Alice, Shop, TRUE)
    \/ \E allowed \in BOOLEAN : setAgentAllowed(Alice, Agent, allowed)
    \/ \E sender \in AuthSenders :
         \E i \in AuthIntents :
           \E userSig \in SigInputs(i) : executeIntent(sender, i, userSig, TRUE)

SpecAuth == Init /\ [][NextAuth]_vars

\* the errors of the checks that come before the authorization
BeforeAuth ==
    {"Expired", "InvalidIntent", "PerTxCapExceeded", "MerchantNotAllowed",
     "StaleNonce", "IntentAlreadyUsed"}

\* sig is a 65-byte signature made with the key of the intent's account over
\* the hash of this very intent in this deployment
ValidOwnerSig(intent, sig) ==
    /\ sig.len = 65
    /\ sig.signer = intent.user
    /\ sig.signer # Null
    /\ sig.digest = <<ThisDomain, intent.user, intent.merchant, intent.token,
                      intent.amount, intent.deadline, intent.cartHash, intent.nonce>>

\* the account of the last call's intent requires the owner's signature
SigRequired(intent) == intent.user # Null /\ policyOf[intent.user].requireUserSig

\* sender is the owner of the intent's account or an agent it allowlists
Privileged(sender, intent) ==
    intent.user # Null
    /\ (sender = intent.user \/ agentAllowed[intent.user][sender])

---------------------------------------------------------------------------
(* C4: with requireUserSig = true, executeIntent succeeds only with a       *)
(* signature of the account owner over the intent hash; the outcome is the  *)
(* same for every caller; the owner calling with no signature is refused    *)
(* with Unauthorized.                                                       *)
C4_SigRequiredForAll ==
    [][ (last'.op = "executeIntent" /\ SigRequired(last'.intent))
            => /\ last'.err = "ok" => ValidOwnerSig(last'.intent, last'.userSig)
               /\ \A sender \in AuthSenders :
                     Call(sender, last'.intent, last'.userSig, last'.transferOk).err
                         = last'.err
               /\ (/\ last'.sender = last'.intent.user
                   /\ last'.userSig.len = 0
                   /\ last'.err \notin BeforeAuth)
                      => last'.err = "Unauthorized"
      ]_vars

\* the owner called with no signature while requireUserSig was set, and was refused
C4_Witness ==
    /\ Executing
    /\ SigRequired(last.intent)
    /\ last.sender = last.intent.user
    /\ last.userSig = EmptySig
    /\ last.err = "Unauthorized"

\* an allowlisted agent with the owner's signature has committed under requireUserSig
C4_WitnessCommit ==
    /\ Executing
    /\ SigRequired(last.intent)
    /\ last.sender = Agent
    /\ last.err = "ok"

---------------------------------------------------------------------------
(* C5: with requireUserSig = false, a caller that is neither the owner nor  *)
(* a currently allowlisted agent is authorized exactly when it supplies a   *)
(* valid owner signature over the intent; otherwise (empty, wrong length,   *)
(* other signer, other intent) the call fails with Unauthorized.            *)
C5_UnprivilegedNeedsOwnerSig ==
    [][ (/\ last'.op = "executeIntent"
         /\ last'.intent.user # Null
         /\ ~SigRequired(last'.intent)
         /\ ~Privileged(last'.sender, last'.intent)
         /\ last'.err \notin BeforeAuth)
            => (last'.err = "Unauthorized"
                    <=> ~ValidOwnerSig(last'.intent, last'.userSig))
      ]_vars

\* an agent that was taken off the allowlist after the account had spent calls
\* with no signature and is refused
C5_Witness ==
    /\ Executing
    /\ last.intent.user # Null
    /\ ~SigRequired(last.intent)
    /\ last.sender = Agent
    /\ ~agentAllowed[last.intent.user][Agent]
    /\ last.userSig = EmptySig
    /\ nonces[last.intent.user] > 0
    /\ last.err = "Unauthorized"

\* a caller without privilege has committed with the owner's signature
C5_WitnessCommit ==
    /\ Executing
    /\ ~SigRequired(last.intent)
    /\ last.sender = Bob
    /\ last.err = "ok"

---------------------------------------------------------------------------
(* C6: with requireUserSig = false, the owner or an allowlisted agent that  *)
(* passes a non-empty signature which does not verify is refused with       *)
(* Unauthorized, although the same call with an empty signature is          *)
(* authorized.                                                              *)
C6_BadSigRefusedEvenIfPrivileged ==
    [][ (/\ last'.op = "executeIntent"
         /\ ~SigRequired(last'.intent)
         /\ Privileged(last'.sender, last'.intent)
         /\ last'.userSig.len > 0
         /\ ~ValidOwnerSig(last'.intent, last'.userSig)
         /\ last'.err \notin BeforeAuth)
            => /\ last'.err = "Unauthorized"
               /\ Call(last'.sender, last'.intent, EmptySig, last'.transferOk).err
                      \notin BeforeAuth \cup {"Unauthorized"}
      ]_vars

\* an allowlisted agent passed a signature made with its own key and was refused
C6_Witness ==
    /\ Executing
    /\ last.intent.user # Null
    /\ ~SigRequired(last.intent)
    /\ last.sender = Agent
    /\ agentAllowed[last.intent.user][Agent]
    /\ last.userSig = SignedBy(Agent, _hashIntent(last.intent))
    /\ last.err = "Unauthorized"

---------------------------------------------------------------------------
(* The conditions of executeIntent, as the claims state them *)

\* the spend window of account a as the rollover rule leaves it at time t:
\* unset or expired counters restart from 0
WeekSpentAt(a, t) ==
    IF spend[a].weekStart = 0 \/ t - spend[a].weekStart >= SevenDays
    THEN 0 ELSE spend[a].weekSpent

MonthSpentAt(a, t) ==
    IF spend[a].weekStart = 0 THEN spend[a].monthSpent
    ELSE IF t - spend[a].monthStart >= ThirtyDays THEN 0
    ELSE spend[a].monthSpent

\* the errors of the checks that come before the caps
BeforeCaps == BeforeAuth \cup {"Unauthorized"}

---------------------------------------------------------------------------
(* C7: with requireUserSig = false, an allowlisted agent that passes no     *)
(* signature commits whenever the deadline has not passed, amount > 0,      *)
(* amount <= perTxCap, the merchant is allowlisted, the nonce is current,   *)
(* the hash is unused, the weekly and monthly caps leave room and the       *)
(* transfer succeeds.                                                       *)
C7_AgentWithoutSigCommits ==
    [][ (/\ last'.op = "executeIntent"
         /\ last'.intent.user # Null
         /\ ~SigRequired(last'.intent)
         /\ last'.sender # last'.intent.user
         /\ agentAllowed[last'.intent.user][last'.sender]
         /\ last'.userSig.len = 0
         /\ now <= last'.intent.deadline
         /\ last'.intent.amount > 0
         /\ last'.intent.amount <= policyOf[last'.intent.user].perTxCap
         /\ merchantAllowed[last'.intent.user][last'.intent.merchant]
         /\ last'.intent.nonce = nonces[last'.intent.user]
         /\ _hashIntent(last'.intent) \notin intentUsed
         /\ WeekSpentAt(last'.intent.user, now) + last'.intent.amount
                <= policyOf[last'.intent.user].weeklyCap
         /\ MonthSpentAt(last'.intent.user, now) + last'.intent.amount
                <= policyOf[last'.intent.user].monthlyCap
         /\ last'.transferOk)
            => /\ last'.err = "ok"
               /\ nonces'[last'.intent.user] = nonces[last'.intent.user] + 1
               /\ executed' = Append(executed, IntentExecuted(last'.intent, now))
      ]_vars

\* an allowlisted agent has committed an intent with no signature
C7_Witness ==
    /\ Executing
    /\ last.intent.user # Null
    /\ ~SigRequired(last.intent)
    /\ last.sender = Agent
    /\ agentAllowed[last.intent.user][Agent]
    /\ last.userSig = EmptySig
    /\ last.err = "ok"
    /\ spend[last.intent.user].weekSpent >= last.intent.amount

---------------------------------------------------------------------------
(* C2: right after a successful executeIntent, weekSpent <= weeklyCap and   *)
(* monthSpent <= monthlyCap under the policy in force; a call that gets to  *)
(* the caps fails with WeeklyCapExceeded when weekSpent + amount >          *)
(* weeklyCap, else with MonthlyCapExceeded when monthSpent + amount >       *)
(* monthlyCap, else both counters grow by exactly amount.                   *)
C2_CapsEnforced ==
    [][ (last'.op = "executeIntent" /\ last'.err \notin BeforeCaps)
            => LET a == last'.intent.user
                   amount == last'.intent.amount
                   week == WeekSpentAt(a, now)
                   month == MonthSpentAt(a, now)
               IN  /\ last'.err = "ok"
                        => /\ spend'[a].weekSpent <= policyOf[a].weeklyCap
                           /\ spend'[a].monthSpent <= policyOf[a].monthlyCap
                           /\ spend'[a].weekSpent = week + amount
                           /\ spend'[a].monthSpent = month + amount
                   /\ week + amount > policyOf[a].weeklyCap
                        => last'.err = "WeeklyCapExceeded"
                   /\ (/\ week + amount <= policyOf[a].weeklyCap
                       /\ month + amount > policyOf[a].monthlyCap)
                        => last'.err = "MonthlyCapExceeded"
      ]_vars

\* the same, for the sums that the uint256 counters can hold
C2_CapsEnforcedInRange ==
    [][ (last'.op = "executeIntent" /\ last'.err \notin BeforeCaps)
            => LET a == last'.intent.user
                   amount == last'.intent.amount
                   week == WeekSpentAt(a, now)
                   month == MonthSpentAt(a, now)
               IN  /\ last'.err = "ok"
                        => /\ spend'[a].weekSpent <= policyOf[a].weeklyCap
                           /\ spend'[a].monthSpent <= policyOf[a].monthlyCap
                           /\ spend'[a].weekSpent = week + amount
                           /\ spend'[a].monthSpent = month + amount
                   /\ (week + amount > policyOf[a].weeklyCap /\ week + amount <= UintMax)
                        => last'.err = "WeeklyCapExceeded"
                   /\ (/\ week + amount <= policyOf[a].weeklyCap
                       /\ month + amount > policyOf[a].monthlyCap
                       /\ month + amount <= UintMax)
                        => last'.err = "MonthlyCapExceeded"
                   /\ last'.err = "Panic"
                        => week + amount > UintMax \/ month + amount > UintMax
      ]_vars

---------------------------------------------------------------------------
(* SpecConc: transactions built off-chain against the same nonce and mined  *)
(* in any order.  The chain runs one transaction at a time.                 *)

NextConc ==
    \/ setPolicy(Alice, Generous)
    \/ setMerchantAllowed(Alice, Shop, TRUE)
    \/ setAgentAllowed(Alice, Agent, TRUE)
    \/ \E slot \in Slots, amount \in {1, 2} :
          \/ buildIntent(slot, Agent, Alice, Shop, amount, Cart1, FALSE)
          \/ buildIntent(slot, Bob, Alice, Shop, amount, Cart1, TRUE)
    \/ \E slot \in Slots, transferOk \in BOOLEAN : mine(slot, transferOk)

SpecConc == Init /\ [][NextConc]_vars

\* the slots whose transaction is for account a and carries nonce n
Carrying(a, n) ==
    { s \in Slots : /\ inflight[s].status # "free"
                    /\ inflight[s].intent.user = a
                    /\ inflight[s].intent.nonce = n }

\* the events of account a whose intent carried nonce n
CommitsOf(a, n) ==
    { k \in DOMAIN executed : executed[k].intentId[2] = a /\ executed[k].intentId[8] = n }

\* the transaction of slot s failed for no other reason than the race
LostOrWon(s) ==
    /\ inflight[s].status = "done"
    /\ inflight[s].err \in {"ok", "StaleNonce", "IntentAlreadyUsed"}

---------------------------------------------------------------------------
(* C3: of two otherwise valid executeIntent transactions for one account    *)
(* that both carry the account's current nonce (identical intents or not),  *)
(* mined in either order, exactly one commits and the other fails with      *)
(* StaleNonce or IntentAlreadyUsed; one event is logged for that nonce and  *)
(* the winner's amount is spent once.                                       *)
C3_OneOfTwoCommits ==
    \A s1, s2 \in Slots :
        (/\ s1 # s2
         /\ LostOrWon(s1) /\ LostOrWon(s2)
         /\ Carrying(inflight[s1].intent.user, inflight[s1].intent.nonce) = {s1, s2})
        => LET a == inflight[s1].intent.user
               n == inflight[s1].intent.nonce
               winner == IF inflight[s1].err = "ok" THEN s1 ELSE s2
               loser == IF inflight[s1].err = "ok" THEN s2 ELSE s1
           IN  /\ inflight[winner].err = "ok"
               /\ inflight[loser].err \in {"StaleNonce", "IntentAlreadyUsed"}
               /\ nonces[a] >= n + 1
               /\ Cardinality(CommitsOf(a, n)) = 1
               /\ \A k \in CommitsOf(a, n) :
                     /\ executed[k].intentId = _hashIntent(inflight[winner].intent)
                     /\ executed[k].amount = inflight[winner].intent.amount
               /\ nonces[a] = Cardinality({ k \in DOMAIN executed : executed[k].user = a })

\* two transactions with the same intent were both mined: one committed, the
\* other failed with StaleNonce
C3_Witness ==
    \E s1, s2 \in Slots :
        /\ s1 # s2
        /\ inflight[s1].status = "done" /\ inflight[s2].status = "done"
        /\ inflight[s1].intent = inflight[s2].intent
        /\ inflight[s1].err = "ok"
        /\ inflight[s2].err = "StaleNonce"

\* the same with two different intents
C3_WitnessDifferent ==
    \E s1, s2 \in Slots :
        /\ s1 # s2
        /\ inflight[s1].status = "done" /\ inflight[s2].status = "done"
        /\ inflight[s1].intent # inflight[s2].intent
        /\ inflight[s1].intent.nonce = inflight[s2].intent.nonce
        /\ inflight[s1].err = "ok"
        /\ inflight[s2].err = "StaleNonce"

---------------------------------------------------------------------------
(* C11: a call of executeIntent whose intent.nonce differs from the nonce   *)
(* of the account never commits, and once the deadline, amount, per-        *)
(* transaction cap and merchant checks are passed it fails with StaleNonce, *)
(* whoever calls, whatever signature is passed and whether or not the       *)
(* policy requires the owner's signature.                                   *)
BeforeNonce == {"Expired", "InvalidIntent", "PerTxCapExceeded", "MerchantNotAllowed"}

C11_WrongNonceIsStale ==
    [][ (/\ last'.op = "executeIntent"
         /\ last'.intent.user # Null
         /\ last'.intent.nonce # nonces[last'.intent.user])
            => /\ last'.err # "ok"
               /\ last'.err \notin BeforeNonce => last'.err = "StaleNonce"
               /\ \A sender \in AuthSenders :
                     Call(sender, last'.intent, last'.userSig, TRUE).err = last'.err
               /\ \A userSig \in SigInputs(last'.intent) :
                     Call(last'.sender, last'.intent, userSig, TRUE).err = last'.err
               /\ UNCHANGED <<nonces, intentUsed, spend, executed>>
      ]_vars

\* a call that the authorization would let through (a valid owner signature,
\* under a policy that requires it) was refused for its nonce
C11_Witness ==
    /\ Executing
    /\ last.err = "StaleNonce"
    /\ SigRequired(last.intent)
    /\ ValidOwnerSig(last.intent, last.userSig)
    /\ Authorized(Storage, policyOf[last.intent.user], last.sender, last.intent,
                  last.userSig)

\* the same for an allowlisted agent that passes no signature
C11_WitnessAgent ==
    /\ Executing
    /\ last.err = "StaleNonce"
    /\ ~SigRequired(last.intent)
    /\ last.sender = Agent
    /\ last.userSig = EmptySig
    /\ Authorized(Storage, policyOf[last.intent.user], last.sender, last.intent,
                  last.userSig)
    /\ last.intent.nonce > nonces[last.intent.user]

---------------------------------------------------------------------------
(* C12 as stated: a second executeIntent with an intent identical in every  *)
(* field to one that was committed fails with IntentAlreadyUsed (once the   *)
(* deadline, amount, per-transaction cap and merchant checks are passed).   *)
C12_SecondAttemptAlreadyUsed ==
    [][ (/\ last'.op = "executeIntent"
         /\ EventsOf(_hashIntent(last'.intent)) # {}
         /\ last'.err \notin BeforeNonce)
            => last'.err = "IntentAlreadyUsed"
      ]_vars

\* the outcome of a call on the current storage with the nonce of the intent's
\* account set back to the nonce of the intent
CallWithNonceReset(sender, intent, userSig, transferOk) ==
    Run([Storage EXCEPT !.nonces[intent.user] = intent.nonce], now, sender, intent,
        userSig, transferOk).err

(* C12 amended: a second executeIntent with an intent identical in every    *)
(* field to one that was committed never commits; once the deadline,        *)
(* amount, per-transaction cap and merchant checks are passed it fails with *)
(* StaleNonce, the nonce of the account being past the intent's; the same   *)
(* call on a storage whose nonce is set back to the intent's nonce fails    *)
(* with IntentAlreadyUsed.                                                  *)
C12_SecondAttemptRefused ==
    [][ (/\ last'.op = "executeIntent"
         /\ EventsOf(_hashIntent(last'.intent)) # {})
            => /\ last'.err # "ok"
               /\ nonces[last'.intent.user] > last'.intent.nonce
               /\ last'.err \notin BeforeNonce
                    => /\ last'.err = "StaleNonce"
                       /\ CallWithNonceReset(last'.sender, last'.intent, last'.userSig,
                                             last'.transferOk) = "IntentAlreadyUsed"
               /\ UNCHANGED <<nonces, intentUsed, spend, executed>>
      ]_vars

\* an intent that was committed is submitted again with every other check
\* passing, and is refused for its nonce
C12_Witness ==
    /\ Executing
    /\ EventsOf(_hashIntent(last.intent)) # {}
    /\ last.err = "StaleNonce"
    /\ last.intent.nonce + 1 = nonces[last.intent.user]

---------------------------------------------------------------------------
(* SpecPolicy: two accounts set policies of every shape; one of them spends *)

PolicyInputs ==
    { [monthlyCap |-> m, weeklyCap |-> w, perTxCap |-> x, requireUserSig |-> FALSE] :
        m \in {1, 2}, w \in {1, 2}, x \in {1, 2} }
    \cup {Generous}

NextPolicy ==
    \/ \E p \in PolicyInputs : setPolicy(Alice, p)
    \/ \E p \in {Tight, TooHigh} : setPolicy(Bob, p)
    \/ setMerchantAllowed(Alice, Shop, TRUE)
    \/ setAgentAllowed(Alice, Agent, TRUE)
    \/ \E amount \in {1, 2} :
          executeIntent(Agent, [BaseIntent(Alice) EXCEPT !.amount = amount], EmptySig, TRUE)

SpecPolicy == Init /\ [][NextPolicy]_vars

\* the caps of policy p are consistent
CapsConsistent(p) == p.perTxCap <= p.weeklyCap /\ p.perTxCap <= p.monthlyCap

---------------------------------------------------------------------------
(* C13: the stored policy of every account always has perTxCap <= weeklyCap *)
(* and perTxCap <= monthlyCap; setPolicy with perTxCap above either cap     *)
(* fails with InvalidPolicy and leaves the stored policies unchanged; any   *)
(* other policy replaces the caller's policy, and only that one; the        *)
(* executeIntent that comes next for that account is decided by the new     *)
(* caps.                                                                    *)
C13_PolicyCapsConsistent ==
    [][ /\ \A a \in Addrs : CapsConsistent(policyOf'[a])
        /\ last'.op = "setPolicy"
             => IF CapsConsistent(last'.arg)
                THEN /\ last'.err = "ok"
                     /\ policyOf' = [policyOf EXCEPT ![last'.sender] = last'.arg]
                ELSE /\ last'.err = "InvalidPolicy"
                     /\ policyOf' = policyOf
        /\ (/\ last.op = "setPolicy" /\ last.err = "ok"
            /\ last'.op = "executeIntent"
            /\ last'.intent.user = last.sender
            /\ last'.err \notin {"Expired", "InvalidIntent"})
             => /\ last'.err = "PerTxCapExceeded"
                    <=> last'.intent.amount > last.arg.perTxCap
                /\ last'.err = "WeeklyCapExceeded"
                    => WeekSpentAt(last.sender, now) + last'.intent.amount
                          > last.arg.weeklyCap
                /\ last'.err = "MonthlyCapExceeded"
                    => MonthSpentAt(last.sender, now) + last'.intent.amount
                          > last.arg.monthlyCap
                /\ last'.err = "ok"
                    => /\ spend'[last.sender].weekSpent <= last.arg.weeklyCap
                       /\ spend'[last.sender].monthSpent <= last.arg.monthlyCap
      ]_vars

\* a policy whose perTxCap is within the weekly cap and above the monthly cap
\* was refused, and the stored policy is the one set before
C13_Witness ==
    /\ last.op = "setPolicy"
    /\ last.err = "InvalidPolicy"
    /\ last.arg.perTxCap <= last.arg.weeklyCap
    /\ last.arg.perTxCap > last.arg.monthlyCap
    /\ policyOf[last.sender] # ZeroPolicy
    /\ policyOf[last.sender] # last.arg

\* an amount that was committed under one policy is refused under the next
C13_WitnessLowered ==
    /\ Executing
    /\ last.err = "PerTxCapExceeded"
    /\ \E k \in DOMAIN executed :
          /\ executed[k].user = last.intent.user
          /\ executed[k].amount = last.intent.amount

---------------------------------------------------------------------------
(* SpecWindow: one account under one policy spends over weeks and months *)

WindowPolicy == [monthlyCap |-> 4, weeklyCap |-> 2, perTxCap |-> 2,
                 requireUserSig |-> FALSE]

NextWindow ==
    \/ setPolicy(Alice, WindowPolicy)
    \/ setMerchantAllowed(Alice, Shop, TRUE)
    \/ setAgentAllowed(Alice, Agent, TRUE)
    \/ \E amount \in {1, 2} :
          executeIntentUpTo(MaxSpends, Agent,
                            [BaseIntent(Alice) EXCEPT !.amount = amount], EmptySig, TRUE)
    \/ \E t \in Instants : Tick(t)

SpecWindow == Init /\ [][NextWindow]_vars

\* the sum of the amounts of the events with index in S
RECURSIVE SumAmounts(_)
SumAmounts(S) ==
    IF S = {} THEN 0
    ELSE LET k == CHOOSE k \in S : TRUE
         IN  executed[k].amount + SumAmounts(S \ {k})

\* what account a spent at the instants from, from + 1, ..., from + span - 1
SpentWithin(a, from, span) ==
    SumAmounts({ k \in DOMAIN executed :
                   /\ executed[k].user = a
                   /\ from <= executed[k].time
                   /\ executed[k].time < from + span })

---------------------------------------------------------------------------
(* C14: under an unchanged policy, the amounts an account spends within any *)
(* span of 7 days sum to at most weeklyCap, and within any span of 30 days  *)
(* to at most monthlyCap.                                                   *)
C14_CapsOverAnySpan ==
    \A j \in DOMAIN executed :
        LET a == executed[j].user
        IN  /\ SpentWithin(a, executed[j].time, SevenDays) <= policyOf[a].weeklyCap
            /\ SpentWithin(a, executed[j].time, ThirtyDays) <= policyOf[a].monthlyCap

---------------------------------------------------------------------------
(* SpecWindowMax: the same, under the policy whose caps are the largest     *)
(* uint256                                                                  *)

NextWindowMax ==
    \/ setPolicy(Alice, Generous)
    \/ setMerchantAllowed(Alice, Shop, TRUE)
    \/ setAgentAllowed(Alice, Agent, TRUE)
    \/ \E amount \in {1, UintMax} :
          executeIntentUpTo(MaxSpends, Agent,
                            [BaseIntent(Alice) EXCEPT !.amount = amount], EmptySig, TRUE)
    \/ \E t \in Instants : Tick(t)

SpecWindowMax == Init /\ [][NextWindowMax]_vars

---------------------------------------------------------------------------
(* C15: with weekly cap W and monthly room, an intent that passes the       *)
(* checks before the caps and is executed less than 7 days after weekStart  *)
(* commits while weekSpent + amount <= W (weekStart kept, weekSpent grown   *)
(* by amount) and fails with WeeklyCapExceeded when weekSpent + amount > W; *)
(* executed 7 days or more after weekStart it commits with weekStart = now  *)
(* and weekSpent = amount; monthStart and monthSpent restart the same way   *)
(* only when 30 days have passed since monthStart, whether or not the week  *)
(* restarts.                                                                *)
C15_WeeklyWindow ==
    [][ (/\ last'.op = "executeIntent"
         /\ last'.err \notin BeforeCaps
         /\ last'.transferOk
         /\ MonthSpentAt(last'.intent.user, now) + last'.intent.amount
                <= policyOf[last'.intent.user].monthlyCap)
            => LET a == last'.intent.user
                   amount == last'.intent.amount
                   W == policyOf[a].weeklyCap
                   w == spend[a]
               IN  /\ (w.weekStart # 0 /\ now - w.weekStart < SevenDays)
                        => /\ w.weekSpent + amount <= W
                                => /\ last'.err = "ok"
                                   /\ spend'[a].weekStart = w.weekStart
                                   /\ spend'[a].weekSpent = w.weekSpent + amount
                           /\ w.weekSpent + amount > W
                                => /\ last'.err = "WeeklyCapExceeded"
                                   /\ spend'[a] = w
                   /\ (w.weekStart # 0 /\ now - w.weekStart >= SevenDays)
                        => /\ last'.err = "ok"
                           /\ spend'[a].weekStart = now
                           /\ spend'[a].weekSpent = amount
                   /\ w.weekStart = 0
                        => /\ last'.err = "ok"
                           /\ spend'[a] = [weekStart |-> now, weekSpent |-> amount,
                                           monthStart |-> now, monthSpent |-> amount]
                   /\ (last'.err = "ok" /\ w.weekStart # 0)
                        => IF now - w.monthStart >= ThirtyDays
                           THEN /\ spend'[a].monthStart = now
                                /\ spend'[a].monthSpent = amount
                           ELSE /\ spend'[a].monthStart = w.monthStart
                                /\ spend'[a].monthSpent = w.monthSpent + amount
      ]_vars

\* the same, for the sums that the uint256 counters can hold
C15_WeeklyWindowInRange ==
    [][ (/\ last'.op = "executeIntent"
         /\ last'.err \notin BeforeCaps
         /\ last'.transferOk
         /\ MonthSpentAt(last'.intent.user, now) + last'.intent.amount
                <= policyOf[last'.intent.user].monthlyCap)
            => LET a == last'.intent.user
                   amount == last'.intent.amount
                   W == policyOf[a].weeklyCap
                   w == spend[a]
               IN  /\ (w.weekStart # 0 /\ now - w.weekStart < SevenDays)
                        => /\ w.weekSpent + amount <= W
                                => /\ last'.err = "ok"
                                   /\ spend'[a].weekStart = w.weekStart
                                   /\ spend'[a].weekSpent = w.weekSpent + amount
                           /\ (w.weekSpent + amount > W /\ w.weekSpent + amount <= UintMax)
                                => /\ last'.err = "WeeklyCapExceeded"
                                   /\ spend'[a] = w
                   /\ (w.weekStart # 0 /\ now - w.weekStart >= SevenDays)
                        => /\ last'.err = "ok"
                           /\ spend'[a].weekStart = now
                           /\ spend'[a].weekSpent = amount
                   /\ w.weekStart = 0
                        => /\ last'.err = "ok"
                           /\ spend'[a] = [weekStart |-> now, weekSpent |-> amount,
                                           monthStart |-> now, monthSpent |-> amount]
                   /\ (last'.err = "ok" /\ w.weekStart # 0)
                        => IF now - w.monthStart >= ThirtyDays
                           THEN /\ spend'[a].monthStart = now
                                /\ spend'[a].monthSpent = amount
                           ELSE /\ spend'[a].monthStart = w.monthStart
                                /\ spend'[a].monthSpent = w.monthSpent + amount
      ]_vars

\* the month has restarted while the week has not
C15_MonthRolledAlone ==
    /\ Executing
    /\ last.err = "ok"
    /\ spend[Alice].monthStart = now
    /\ spend[Alice].weekStart < now
    /\ spend[Alice].weekSpent > spend[Alice].monthSpent

\* the week has restarted while the month has not
C15_WeekRolledAlone ==
    /\ Executing
    /\ last.err = "ok"
    /\ spend[Alice].weekStart = now
    /\ spend[Alice].monthStart < now
    /\ spend[Alice].monthSpent > spend[Alice].weekSpent

---------------------------------------------------------------------------
(* SpecFunds: two accounts configure, deposit, withdraw and spend *)

Owners == {Alice, Bob}

\* <<account, amount, transferOk>>
FundsIntents ==
    { <<a, 1, TRUE>> : a \in Owners } \cup { <<Alice, UintMax, TRUE>>, <<Alice, 1, FALSE>> }

\* <<sender, amount, transferOk>>
DepositCalls ==
    { <<a, 1, TRUE>> : a \in Owners } \cup { <<Alice, 0, TRUE>>, <<Alice, 1, FALSE>> }

\* <<sender, amount, to, transferOk>>
WithdrawCalls ==
    { <<a, 1, Bob, TRUE>> : a \in Owners }
    \cup { <<Bob, 0, Bob, TRUE>>, <<Bob, 1, Null, TRUE>>, <<Bob, 1, Bob, FALSE>> }

NextFunds ==
    \/ \E a \in Owners : setPolicy(a, Tight)
    \/ \E a \in Owners : setMerchantAllowed(a, Shop, TRUE)
    \/ setAgentAllowed(Alice, Agent, TRUE)
    \/ \E c \in FundsIntents :
          executeIntent(IF c[1] = Alice THEN Agent ELSE c[1],
                        [BaseIntent(c[1]) EXCEPT !.amount = c[2]], EmptySig, c[3])
    \/ \E c \in DepositCalls : deposit(c[1], USDC, c[2], c[3])
    \/ \E c \in WithdrawCalls : withdraw(c[1], USDC, c[2], c[3], c[4])
    \/ \E a \in Owners : getNonce(Agent, a)

SpecFunds == Init /\ [][NextFunds]_vars

---------------------------------------------------------------------------
(* C16: the nonce of every account starts at 0, never decreases, grows by   *)
(* exactly 1 with each successful executeIntent for that account, and is    *)
(* left unchanged by every other step: a failed executeIntent, an           *)
(* executeIntent for another account, setPolicy, the allowlist toggles,     *)
(* deposit, withdraw and the reads.                                         *)
C16_NonceCountsCommits ==
    /\ \A a \in Addrs : nonces[a] = 0
    /\ [][ \A a \in Addrs :
             /\ nonces'[a] >= nonces[a]
             /\ IF /\ last'.op = "executeIntent"
                   /\ last'.err = "ok"
                   /\ last'.intent.user = a
                THEN nonces'[a] = nonces[a] + 1
                ELSE nonces'[a] = nonces[a]
         ]_vars

\* one account has committed and the other has not; then a withdrawal by the
\* other went through
C16_Witness ==
    /\ last.op = "withdraw"
    /\ last.sender = Bob
    /\ last.err = "ok"
    /\ nonces[Alice] = 1
    /\ nonces[Bob] = 0
    /\ Len(executed) = 1

\* an executeIntent of one account has failed after the other had committed
C16_WitnessFailed ==
    /\ Executing
    /\ last.intent.user = Alice
    /\ last.err \in {"PerTxCapExceeded", "TransferFailed", "WeeklyCapExceeded"}
    /\ nonces[Alice] = 1
    /\ nonces[Bob] = 1

---------------------------------------------------------------------------
(* SpecMerchant: an account allowlists a merchant and takes it off again,   *)
(* another account allowlists other merchants; every caller, with and       *)
(* without the owner's signature                                            *)

MerchantSigs(i) == {EmptySig, JunkSig, SignedBy(i.user, _hashIntent(i))}

NextMerchant ==
    \/ \E p \in {Generous, SigOnly} : setPolicy(Alice, p)
    \/ \E allowed \in BOOLEAN : setMerchantAllowed(Alice, Shop, allowed)
    \/ \E merchant \in {Shop, Mall} : setMerchantAllowed(Bob, merchant, TRUE)
    \/ setAgentAllowed(Alice, Agent, TRUE)
    \/ \E sender \in AuthSenders :
         \E i \in {BaseIntent(Alice), [BaseIntent(Alice) EXCEPT !.merchant = Mall]} :
           \E userSig \in MerchantSigs(i) : executeIntent(sender, i, userSig, TRUE)

SpecMerchant == Init /\ [][NextMerchant]_vars

\* the errors of the checks that come before the merchant allowlist
BeforeMerchant == {"Expired", "InvalidIntent", "PerTxCapExceeded"}

---------------------------------------------------------------------------
(* C17: a successful executeIntent pays a merchant that the account of the  *)
(* intent has allowlisted at that moment; an intent to a merchant that the  *)
(* account does not (or no longer) allowlist never commits and, once the    *)
(* deadline, amount and per-transaction cap checks are passed, fails with   *)
(* MerchantNotAllowed for every caller and every signature, whatever the    *)
(* allowlists of other accounts say.                                        *)
C17_MerchantOfAccount ==
    [][ (last'.op = "executeIntent" /\ last'.intent.user # Null)
            => LET a == last'.intent.user
                   m == last'.intent.merchant
               IN  /\ last'.err = "ok"
                        => /\ merchantAllowed[a][m]
                           /\ ledger' = Append(ledger,
                                               Transfer("executeIntent", a,
                                                        last'.intent.token, Vault, m,
                                                        last'.intent.amount))
                   /\ ~merchantAllowed[a][m]
                        => /\ last'.err # "ok"
                           /\ last'.err \notin BeforeMerchant
                                => last'.err = "MerchantNotAllowed"
                           /\ \A sender \in AuthSenders : \A userSig \in MerchantSigs(last'.intent) :
                                 Call(sender, last'.intent, userSig, TRUE).err = last'.err
                           /\ ledger' = ledger
      ]_vars

\* a merchant that was paid before was taken off the allowlist, and the owner's
\* own call with a valid signature is refused
C17_Witness ==
    /\ Executing
    /\ last.err = "MerchantNotAllowed"
    /\ last.sender = last.intent.user
    /\ ValidOwnerSig(last.intent, last.userSig)
    /\ \E k \in DOMAIN ledger : /\ ledger[k].to = last.intent.merchant
                                 /\ ledger[k].account = last.intent.user

\* the merchant is allowlisted by the caller's account and not by the intent's
C17_WitnessOther ==
    /\ Executing
    /\ last.err = "MerchantNotAllowed"
    /\ last.sender = Bob
    /\ last.intent.user = Alice
    /\ merchantAllowed[Bob][last.intent.merchant]
    /\ ValidOwnerSig(last.intent, last.userSig)

---------------------------------------------------------------------------
(* The checks of executeIntent in the order of the claims, each stated on   *)
(* the state before the call                                                *)

\* the authorization rule: the owner's signature when the policy requires it
\* or the caller has no privilege; for the owner and the allowlisted agent
\* otherwise, no signature or a valid one
AuthorizationHolds(sender, intent, userSig) ==
    IF SigRequired(intent) \/ ~Privileged(sender, intent)
    THEN ValidOwnerSig(intent, userSig)
    ELSE userSig.len = 0 \/ ValidOwnerSig(intent, userSig)

FirstFailingCheck(sender, intent, userSig, transferOk) ==
    IF now > intent.deadline THEN "Expired"
    ELSE IF intent.user = Null \/ intent.amount = 0 THEN "InvalidIntent"
    ELSE IF intent.amount > policyOf[intent.user].perTxCap THEN "PerTxCapExceeded"
    ELSE IF ~merchantAllowed[intent.user][intent.merchant] THEN "MerchantNotAllowed"
    ELSE IF intent.nonce # nonces[intent.user] THEN "StaleNonce"
    ELSE IF _hashIntent(intent) \in intentUsed THEN "IntentAlreadyUsed"
    ELSE IF ~AuthorizationHolds(sender, intent, userSig) THEN "Unauthorized"
    ELSE IF WeekSpentAt(intent.user, now) + intent.amount
               > policyOf[intent.user].weeklyCap THEN "WeeklyCapExceeded"
    ELSE IF MonthSpentAt(intent.user, now) + intent.amount
               > policyOf[intent.user].monthlyCap THEN "MonthlyCapExceeded"
    ELSE IF ~transferOk THEN "TransferFailed"
    ELSE "ok"

---------------------------------------------------------------------------
(* C18: the error of a failing executeIntent is that of the first failing   *)
(* check in the order Expired, InvalidIntent, PerTxCapExceeded,             *)
(* MerchantNotAllowed, StaleNonce, IntentAlreadyUsed, Unauthorized,         *)
(* WeeklyCapExceeded, MonthlyCapExceeded, TransferFailed, whichever checks  *)
(* fail together; the call commits when none fails.                         *)
C18_FirstFailingCheckWins ==
    [][ last'.op = "executeIntent"
            => last'.err = FirstFailingCheck(last'.sender, last'.intent, last'.userSig,
                                             last'.transferOk)
      ]_vars

\* the same, for the sums that the uint256 counters can hold: the one other
\* error is the arithmetic panic of a cap check whose sum overflows
C18_FirstFailingCheckWinsInRange ==
    [][ last'.op = "executeIntent"
            => \/ last'.err = FirstFailingCheck(last'.sender, last'.intent,
                                                last'.userSig, last'.transferOk)
               \/ /\ last'.err = "Panic"
                  /\ FirstFailingCheck(last'.sender, last'.intent, last'.userSig,
                                       last'.transferOk)
                        \in {"WeeklyCapExceeded", "MonthlyCapExceeded"}
                  /\ \/ WeekSpentAt(last'.intent.user, now) + last'.intent.amount > UintMax
                     \/ MonthSpentAt(last'.intent.user, now) + last'.intent.amount > UintMax
      ]_vars

\* an amount above perTxCap was refused with weekly and monthly room left
C18_PerTxWithRoom ==
    /\ Executing
    /\ last.err = "PerTxCapExceeded"
    /\ spend[last.intent.user].weekSpent + last.intent.amount
           <= policyOf[last.intent.user].weeklyCap
    /\ spend[last.intent.user].monthSpent + last.intent.amount
           <= policyOf[last.intent.user].monthlyCap

---------------------------------------------------------------------------
(* SpecSig: the owner has signed one intent; the signature is presented     *)
(* with that intent and with intents that differ from it in one field       *)

\* the intent the owner signed
SignedIntent == MkIntent(Alice, Shop, USDC, 1, Far, Cart1, 0)

\* the intents presented: the signed one, and one for each field changed
PresentedIntents ==
    { SignedIntent,
      [SignedIntent EXCEPT !.user = Bob],
      [SignedIntent EXCEPT !.merchant = Mall],
      [SignedIntent EXCEPT !.token = DAI],
      [SignedIntent EXCEPT !.amount = 2],
      [SignedIntent EXCEPT !.deadline = Near],
      [SignedIntent EXCEPT !.cartHash = Cart2],
      [SignedIntent EXCEPT !.nonce = 1] }

\* the owner's signature over the signed intent, for this deployment and for
\* another one
OwnerSigs ==
    { SignedBy(Alice, _hashIntent(SignedIntent)),
      SignedBy(Alice, HashIntentIn(OtherDomain, SignedIntent)) }

NextSig ==
    \/ \E a \in Owners : setPolicy(a, Generous)
    \/ \E merchant \in {Shop, Mall} : setMerchantAllowed(Alice, merchant, TRUE)
    \/ setMerchantAllowed(Bob, Shop, TRUE)
    \/ setAgentAllowed(Alice, Agent, TRUE)
    \/ \E sender \in {Agent, Bob} : \E i \in PresentedIntents : \E userSig \in OwnerSigs :
          executeIntent(sender, i, userSig, TRUE)
    \/ executeIntent(Agent, [SignedIntent EXCEPT !.cartHash = Cart2], EmptySig, TRUE)

SpecSig == Init /\ [][NextSig]_vars

\* sig is a 65-byte signature made with the key of k's account over the hash
\* of intent k for the deployment of that domain
SigOver(sig, domain, k) ==
    /\ sig.len = 65
    /\ sig.signer = k.user
    /\ sig.digest = HashIntentIn(domain, k)

---------------------------------------------------------------------------
(* C19: the owner's signature over intent k for this deployment verifies    *)
(* with k and with no intent that differs from k in the account, merchant,  *)
(* token, amount, deadline, cartHash or nonce, nor with k in a deployment   *)
(* of another domain separator; a call that presents it with another        *)
(* intent, or presents a signature made for another deployment, never       *)
(* commits and fails with Unauthorized once the checks before the           *)
(* authorization are passed.                                                *)
C19_SignatureBindsIntent ==
    [][ last'.op = "executeIntent" /\ last'.userSig.len > 0
            => LET j == last'.intent
                   sig == last'.userSig
               IN  /\ \A k \in PresentedIntents :
                         SigOver(sig, ThisDomain, k)
                            => /\ _verifyUserSig(k, sig)
                               /\ \A i \in PresentedIntents :
                                     i # k => ~_verifyUserSig(i, sig)
                               /\ ecrecover(HashIntentIn(OtherDomain, k), sig) # k.user
                   /\ (SigOver(sig, ThisDomain, j) /\ last'.err \notin BeforeAuth)
                        => last'.err = "ok"
                   /\ ~SigOver(sig, ThisDomain, j)
                        => /\ last'.err # "ok"
                           /\ last'.err \notin BeforeAuth => last'.err = "Unauthorized"
                           /\ UNCHANGED <<storageVars, executed, ledger>>
      ]_vars

\* the signed intent with the next nonce, presented once the nonce has moved
\* on, with the signature over the signed intent: refused
C19_Witness ==
    /\ Executing
    /\ last.intent = [SignedIntent EXCEPT !.nonce = 1]
    /\ nonces[Alice] = 1
    /\ last.userSig = SignedBy(Alice, _hashIntent(SignedIntent))
    /\ last.err = "Unauthorized"

\* the signed intent presented with the signature made for another deployment
C19_WitnessOtherDomain ==
    /\ Executing
    /\ last.intent = SignedIntent
    /\ last.userSig = SignedBy(Alice, HashIntentIn(OtherDomain, SignedIntent))
    /\ last.err = "Unauthorized"

\* the signed intent presented with its signature by a caller without
\* privilege: committed
C19_WitnessCommit ==
    /\ Executing
    /\ last.intent = SignedIntent
    /\ last.sender = Bob
    /\ last.err = "ok"

\* the intents presented with the signature over the signed intent and
\* refused by the authorization
C19_Refused(i) ==
    /\ Executing
    /\ last.intent = i
    /\ last.userSig = SignedBy(Alice, _hashIntent(SignedIntent))
    /\ last.err = "Unauthorized"

---------------------------------------------------------------------------
(* C20: the token transfers that executeIntent made and that took effect    *)
(* correspond one to one, in order, to the committed intents: as many as    *)
(* there are IntentExecuted events and successful calls, each moving        *)
(* exactly intent.amount of intent.token from the vault to intent.merchant; *)
(* an executeIntent that does not commit leaves no transfer.                *)
ByExecuteIntent(x) == x.by = "executeIntent"

\* the transfers of the ledger that executeIntent made, in order
Paid(l) == SelectSeq(l, ByExecuteIntent)

C20_OneTransferPerCommit ==
    [][ /\ Len(Paid(ledger')) = Len(executed')
        /\ Len(Paid(ledger')) = nonces'[Alice] + nonces'[Bob]
        /\ \A k \in DOMAIN Paid(ledger') :
              /\ Paid(ledger')[k].account = executed'[k].user
              /\ Paid(ledger')[k].token = executed'[k].token
              /\ Paid(ledger')[k].amount = executed'[k].amount
              /\ Paid(ledger')[k].from = Vault
              /\ Paid(ledger')[k].to = executed'[k].merchant
        /\ last'.op = "executeIntent"
             => IF last'.err = "ok"
                THEN ledger' = Append(ledger,
                                      Transfer("executeIntent", last'.intent.user,
                                               last'.intent.token, Vault,
                                               last'.intent.merchant,
                                               last'.intent.amount))
                ELSE ledger' = ledger
        /\ last'.op \notin {"executeIntent", "deposit", "withdraw"}
             => ledger' = ledger
      ]_vars

\* after a deposit and a committed intent, an intent whose transfer failed
\* has left no transfer
C20_Witness ==
    /\ Executing
    /\ last.err = "TransferFailed"
    /\ Len(executed) = 1
    /\ Len(ledger) = 2
    /\ ledger[1].by = "deposit"
    /\ ledger[2].by = "executeIntent"

---------------------------------------------------------------------------
(* SpecViews: one account spends, lowers and raises its caps over weeks and *)
(* months, and reads what remains                                           *)

Small == [monthlyCap |-> 1, weeklyCap |-> 1, perTxCap |-> 1, requireUserSig |-> FALSE]

ViewInstants == {Genesis, Genesis + SevenDays - 1, Genesis + SevenDays,
                 Genesis + ThirtyDays}

NextViews ==
    \/ \E p \in {WindowPolicy, Small} : setPolicy(Alice, p)
    \/ setMerchantAllowed(Alice, Shop, TRUE)
    \/ setAgentAllowed(Alice, Agent, TRUE)
    \/ \E amount \in {1, 2} :
          executeIntent(Agent, [BaseIntent(Alice) EXCEPT !.amount = amount], EmptySig, TRUE)
    \/ \E t \in ViewInstants : Tick(t)
    \/ viewRemaining(Agent, Alice)

SpecViews == Init /\ [][NextViews]_vars

\* max(0, x)
AtLeastZero(x) == IF x < 0 THEN 0 ELSE x

---------------------------------------------------------------------------
(* C21: remainingWeekly(account) is max(0, weeklyCap - s), s being the      *)
(* weekSpent the rollover rule leaves at the current time (0 when the       *)
(* window is unset or 7 days have passed since weekStart, else the stored   *)
(* weekSpent); remainingMonthly likewise with 30 days; reading them changes *)
(* no stored state; an executeIntent that reaches the caps at that instant  *)
(* passes them exactly when its amount is within both values.               *)
C21_RemainingIsTheRoom ==
    /\ [](\A a \in Addrs :
            /\ remainingWeekly(a)
                  = AtLeastZero(policyOf[a].weeklyCap - WeekSpentAt(a, now))
            /\ remainingMonthly(a)
                  = AtLeastZero(policyOf[a].monthlyCap - MonthSpentAt(a, now)))
    /\ [][ /\ last'.op = "remaining"
                => /\ UNCHANGED <<storageVars, now, executed, ledger>>
                   /\ last'.arg = <<last'.arg[1], remainingWeekly(last'.arg[1]),
                                    remainingMonthly(last'.arg[1])>>
           /\ (last'.op = "executeIntent" /\ last'.err \notin BeforeCaps)
                => (last'.err \in {"ok", "TransferFailed"}
                      <=> /\ last'.intent.amount <= remainingWeekly(last'.intent.user)
                          /\ last'.intent.amount <= remainingMonthly(last'.intent.user))
         ]_vars

\* seven days after the account spent its weekly cap the view shows the whole
\* weekly cap again, and less than the monthly cap
C21_Witness ==
    /\ last.op = "remaining"
    /\ policyOf[Alice] = WindowPolicy
    /\ spend[Alice].weekSpent = 2
    /\ now = Genesis + SevenDays
    /\ last.arg = <<Alice, 2, 2>>

\* the caps were lowered below what was spent: the views show 0
C21_WitnessOverCap ==
    /\ last.op = "remaining"
    /\ spend[Alice].weekSpent > policyOf[Alice].weeklyCap
    /\ last.arg = <<Alice, 0, 0>>

---------------------------------------------------------------------------
(* SpecConfig: two principals write policies and toggle allowlist entries   *)

NextConfig ==
    \/ \E c \in Owners, p \in {Generous, Tight, TooHigh} : setPolicy(c, p)
    \/ \E c \in Owners, merchant \in {Shop, Mall}, allowed \in BOOLEAN :
          setMerchantAllowed(c, merchant, allowed)
    \/ \E c \in Owners, allowed \in BOOLEAN : setAgentAllowed(c, Agent, allowed)

SpecConfig == Init /\ [][NextConfig]_vars

---------------------------------------------------------------------------
(* C22: setMerchantAllowed, setAgentAllowed and setPolicy called by         *)
(* principal c write the entry of c for the named counterparty (the policy  *)
(* of c) and nothing else: the policy, merchant allowlist and agent         *)
(* allowlist of every other account are unchanged; a toggle that repeats    *)
(* the stored value leaves the state as it was.                             *)
C22_OwnEntryOnly ==
    [][ LET c == last'.sender IN
        /\ last'.op = "setMerchantAllowed"
             => /\ merchantAllowed'
                      = [merchantAllowed EXCEPT ![c][last'.arg[1]] = last'.arg[2]]
                /\ UNCHANGED <<policyOf, agentAllowed, spend, nonces, intentUsed>>
                /\ merchantAllowed[c][last'.arg[1]] = last'.arg[2]
                      => UNCHANGED storageVars
        /\ last'.op = "setAgentAllowed"
             => /\ agentAllowed'
                      = [agentAllowed EXCEPT ![c][last'.arg[1]] = last'.arg[2]]
                /\ UNCHANGED <<policyOf, merchantAllowed, spend, nonces, intentUsed>>
                /\ agentAllowed[c][last'.arg[1]] = last'.arg[2]
                      => UNCHANGED storageVars
        /\ last'.op = "setPolicy"
             => /\ \A a \in Addrs \ {c} : policyOf'[a] = policyOf[a]
                /\ policyOf'[c] \in {policyOf[c], last'.arg}
                /\ UNCHANGED <<merchantAllowed, agentAllowed, spend, nonces, intentUsed>>
        /\ last'.op \in {"setMerchantAllowed", "setAgentAllowed", "setPolicy"}
             => \A a \in Addrs \ {c} :
                   /\ policyOf'[a] = policyOf[a]
                   /\ merchantAllowed'[a] = merchantAllowed[a]
                   /\ agentAllowed'[a] = agentAllowed[a]
      ]_vars

\* one principal has taken a merchant off its allowlist; the entry of the
\* other principal for that merchant stands
C22_Witness ==
    /\ last.op = "setMerchantAllowed"
    /\ last.sender = Bob
    /\ last.arg = <<Shop, FALSE>>
    /\ ~merchantAllowed[Bob][Shop]
    /\ merchantAllowed[Bob][Mall]
    /\ merchantAllowed[Alice][Shop]
    /\ agentAllowed[Alice][Agent]
    /\ policyOf[Alice] = Tight

---------------------------------------------------------------------------
(* SpecCustody: two principals deposit, withdraw and spend a normal ERC20   *)
(* token: a transfer out of the vault succeeds exactly when the vault holds *)
(* the amount.  The vault holds what was deposited and has not left.        *)

\* the sum of the amounts of the transfers of ledger l with index in S
RECURSIVE LedgerSum(_, _)
LedgerSum(l, S) ==
    IF S = {} THEN 0
    ELSE LET k == CHOOSE k \in S : TRUE
         IN  l[k].amount + LedgerSum(l, S \ {k})

\* IERC20.balanceOf(address(this)) after the transfers of ledger l
balanceOf(l, token) ==
    LedgerSum(l, { k \in DOMAIN l : l[k].token = token /\ l[k].to = Vault })
    - LedgerSum(l, { k \in DOMAIN l : l[k].token = token /\ l[k].from = Vault })

NextCustody ==
    \/ \E c \in Owners : setPolicy(c, Tight)
    \/ \E c \in Owners : setMerchantAllowed(c, Shop, TRUE)
    \/ \E c \in Owners, amount \in {1, 2} : deposit(c, USDC, amount, TRUE)
    \/ \E c \in Owners, amount \in {1, 2} :
          withdraw(c, USDC, amount, c, balanceOf(ledger, USDC) >= amount)
    \/ \E c \in Owners, amount \in {1, 2} :
          executeIntent(c, [BaseIntent(c) EXCEPT !.amount = amount], EmptySig,
                        balanceOf(ledger, USDC) >= amount)

SpecCustody == Init /\ [][NextCustody]_vars

\* the storage with the entries of every account other than a as they are
\* after deployment, and the ledger without the payments of their intents
Isolated(a) ==
    LET kept == { k \in DOMAIN ledger :
                    ~(ledger[k].by = "executeIntent" /\ ledger[k].account # a) }
        IsKept(x) == ~(x.by = "executeIntent" /\ x.account # a)
    IN  [policyOf |-> [b \in Addrs |-> IF b = a THEN policyOf[b] ELSE ZeroPolicy],
         merchantAllowed |-> [b \in Addrs |-> IF b = a THEN merchantAllowed[b]
                                              ELSE [m \in Addrs |-> FALSE]],
         agentAllowed |-> [b \in Addrs |-> IF b = a THEN agentAllowed[b]
                                           ELSE [m \in Addrs |-> FALSE]],
         spend |-> [b \in Addrs |-> IF b = a THEN spend[b] ELSE ZeroWindow],
         nonces |-> [b \in Addrs |-> IF b = a THEN nonces[b] ELSE 0],
         intentUsed |-> ConsumedBy(a),
         ledger |-> SelectSeq(ledger, IsKept)]

\* what executeIntent leaves of account a in storage st
AccountState(st, a) ==
    <<st.policyOf[a], st.merchantAllowed[a], st.agentAllowed[a], st.spend[a],
      st.nonces[a], { h \in st.intentUsed : h[2] = a }>>

---------------------------------------------------------------------------
(* C23: an executeIntent for account A, committed or not, leaves the        *)
(* policy, allowlists, spend window, nonce and consumed hashes of every     *)
(* other account unchanged; its outcome and what it leaves of A are those   *)
(* of the same call made where the other accounts have no state and their   *)
(* intents were never executed.                                             *)
C23_AccountsIsolated ==
    [][ (last'.op = "executeIntent" /\ last'.intent.user # Null)
            => LET a == last'.intent.user
                   iso == Isolated(a)
                   out == Run(iso, now, last'.sender, last'.intent, last'.userSig,
                              balanceOf(iso.ledger, last'.intent.token)
                                  >= last'.intent.amount)
               IN  /\ \A b \in Addrs \ {a} :
                         AccountState(Storage', b) = AccountState(Storage, b)
                   /\ out.err = last'.err
                   /\ AccountState(Settle(iso, out), a) = AccountState(Storage', a)
      ]_vars

\* the same, the token giving the isolated call the answer it gave this one
C23_StorageIsolated ==
    [][ (last'.op = "executeIntent" /\ last'.intent.user # Null)
            => LET a == last'.intent.user
                   iso == Isolated(a)
                   out == Run(iso, now, last'.sender, last'.intent, last'.userSig,
                              last'.transferOk)
               IN  /\ \A b \in Addrs \ {a} :
                         AccountState(Storage', b) = AccountState(Storage, b)
                   /\ out.err = last'.err
                   /\ AccountState(Settle(iso, out), a) = AccountState(Storage', a)
      ]_vars

---------------------------------------------------------------------------
(* SpecUnset: accounts without a policy.  Bob writes a policy and can write *)
(* the zero policy again; Mall writes its allowlists and never a policy;    *)
(* Alice writes nothing.  Everyone calls executeIntent for them.            *)

Unset == {Bob, Mall, Alice}

\* the calls of executeIntent for account u: <<sender, intent, userSig>>
UnsetCalls(u) ==
    LET b == BaseIntent(u)
    IN  { <<sender, b, sig>> : sender \in {u, Agent},
                               sig \in {EmptySig, SignedBy(u, _hashIntent(b))} }
        \cup { <<Agent, [b EXCEPT !.amount = a], EmptySig>> : a \in {0, UintMax} }
        \cup { <<Agent, [b EXCEPT !.deadline = Near], EmptySig>> }

NextUnset ==
    \/ \E p \in {ZeroPolicy, Tight} : setPolicy(Bob, p)
    \/ \E c \in {Bob, Mall} : setMerchantAllowed(c, Shop, TRUE)
    \/ \E c \in {Bob, Mall} : setAgentAllowed(c, Agent, TRUE)
    \/ \E u \in Unset : \E c \in UnsetCalls(u) : executeIntent(c[1], c[2], c[3], TRUE)
    \/ Tick(Genesis + OneHour + 1)
    \/ \E u \in Unset : getPolicy(Agent, u)
    \/ \E u \in Unset : isMerchantAllowed(Agent, u, Shop)
    \/ \E u \in Unset : isAgentAllowed(Agent, u, Agent)

SpecUnset == Init /\ [][NextUnset]_vars

---------------------------------------------------------------------------
(* C24: an account that never wrote a policy holds the zero policy, and an  *)
(* account whose policy is the zero policy permits no spending: every       *)
(* executeIntent for it fails and writes nothing, whoever calls and         *)
(* whatever the signature, with PerTxCapExceeded when the amount is         *)
(* positive and the deadline has not passed; the reads of the policy and of *)
(* the allowlists never fail and return the zero policy / false for an      *)
(* account that never wrote them.                                           *)
C24_ZeroPolicyNoSpending ==
    /\ \A a \in Addrs :
          /\ policyOf[a] = ZeroPolicy
          /\ \A m \in Addrs : ~merchantAllowed[a][m] /\ ~agentAllowed[a][m]
    /\ [][
            /\ \A a \in Addrs :
                /\ policyOf'[a] # policyOf[a]
                     => last'.op = "setPolicy" /\ last'.sender = a
                /\ merchantAllowed'[a] # merchantAllowed[a]
                     => last'.op = "setMerchantAllowed" /\ last'.sender = a
                /\ agentAllowed'[a] # agentAllowed[a]
                     => last'.op = "setAgentAllowed" /\ last'.sender = a
            /\ (/\ last'.op = "executeIntent"
                /\ last'.intent.user # Null
                /\ policyOf[last'.intent.user] = ZeroPolicy)
                 => /\ last'.err \in {"Expired", "InvalidIntent", "PerTxCapExceeded"}
                    /\ ((now <= last'.intent.deadline /\ last'.intent.amount > 0)
                           => last'.err = "PerTxCapExceeded")
                    /\ UNCHANGED <<storageVars, executed, ledger>>
            /\ last'.op = "policyOf"
                 => /\ last'.err = "ok"
                    /\ last'.arg[2] = policyOf[last'.arg[1]]
                    /\ UNCHANGED <<storageVars, executed, ledger>>
            /\ last'.op = "merchantAllowed"
                 => /\ last'.err = "ok"
                    /\ last'.arg[3] = merchantAllowed[last'.arg[1]][last'.arg[2]]
                    /\ UNCHANGED <<storageVars, executed, ledger>>
            /\ last'.op = "agentAllowed"
                 => /\ last'.err = "ok"
                    /\ last'.arg[3] = agentAllowed[last'.arg[1]][last'.arg[2]]
                    /\ UNCHANGED <<storageVars, executed, ledger>>
      ]_vars

\* Mall never wrote a policy, allowlisted the merchant and the agent, and the
\* agent's intent for it, signed by Mall, is refused for the cap
C24_Witness ==
    /\ last.op = "executeIntent"
    /\ last.intent.user = Mall
    /\ last.sender = Agent
    /\ last.userSig = SignedBy(Mall, _hashIntent(last.intent))
    /\ merchantAllowed[Mall][Shop] /\ agentAllowed[Mall][Agent]
    /\ policyOf[Mall] = ZeroPolicy
    /\ last.err = "PerTxCapExceeded"

\* Bob spent under a policy, wrote the zero policy, and his own intent is
\* refused
C24_WitnessZeroed ==
    /\ last.op = "executeIntent"
    /\ last.intent.user = Bob /\ last.sender = Bob
    /\ nonces[Bob] = 1
    /\ policyOf[Bob] = ZeroPolicy
    /\ last.err = "PerTxCapExceeded"

\* the policy of an account that wrote nothing is read
C24_WitnessRead ==
    /\ last.op = "policyOf"
    /\ last.arg = <<Alice, ZeroPolicy>>
    /\ nonces[Bob] = 1

---------------------------------------------------------------------------
(* SpecBackend: the purchases posted to the backend and the transactions it *)
(* sends with its own key, which the account has allowlisted as agent.      *)

\* POST /api/execute-purchase: 400 when a field is missing (or the amount is
\* 0, which JavaScript takes for missing), executePurchaseIntent otherwise
executePurchase(slot, userAddress, merchant, amount) ==
    IF userAddress = Null \/ merchant = Null \/ amount = 0
    THEN /\ last' = Last("executePurchase", Agent, NoIntent, EmptySig, FALSE,
                         <<userAddress, merchant, amount>>, "400")
         /\ UNCHANGED <<storageVars, now, executed, inflight, ledger>>
    ELSE buildIntent(slot, Agent, userAddress, merchant, amount, Cart1, FALSE)

NextBackend ==
    \/ setPolicy(Alice, Small)
    \/ setMerchantAllowed(Alice, Shop, TRUE)
    \/ setAgentAllowed(Alice, Agent, TRUE)
    \/ \E slot \in Slots, userAddress \in {Null, Alice}, merchant \in {Shop, Mall},
          amount \in {0, 1, 2} :
          executePurchase(slot, userAddress, merchant, amount)
    \/ \E slot \in Slots : mine(slot, TRUE)

SpecBackend == Init /\ [][NextBackend]_vars

\* intent i is within the policy of its account as the contract reports it
SatisfiesPolicy(i) ==
    /\ i.amount <= policyOf[i.user].perTxCap
    /\ i.amount <= remainingWeekly(i.user)
    /\ i.amount <= remainingMonthly(i.user)
    /\ merchantAllowed[i.user][i.merchant]

---------------------------------------------------------------------------
(* C25: the backend sends an executeIntent transaction only for a purchase  *)
(* that satisfies the policy of the account as read from the contract at    *)
(* that moment (per-transaction cap, room left in the week and in the       *)
(* month, merchant allowlist); a purchase that violates it is rejected and  *)
(* no transaction is sent.                                                  *)
C25_BackendValidatesPolicy ==
    [][ /\ last'.op = "buildIntent"
             => SatisfiesPolicy(inflight'[last'.arg].intent)
        /\ inflight' # inflight => last'.op \in {"buildIntent", "executeIntent"}
      ]_vars

\* what the backend does check: a purchase with a missing field is answered
\* 400 and nothing is sent
C25_MissingFieldRejected ==
    [][ last'.op = "executePurchase"
            => /\ last'.err = "400"
               /\ Null \in {last'.arg[1], last'.arg[2]} \/ last'.arg[3] = 0
               /\ UNCHANGED <<storageVars, inflight, executed, ledger>>
      ]_vars

\* a purchase over the per-transaction cap was sent and the contract refused it
C25_SentOverCap ==
    \E s \in Slots :
        /\ inflight[s].status = "done"
        /\ inflight[s].err = "PerTxCapExceeded"
        /\ policyOf[Alice] = Small
        /\ inflight[s].intent.amount = 2

---------------------------------------------------------------------------
\* what principal c deposited of token, and what left the vault on c's call
\* of withdraw or by an executeIntent for account c
DepositedBy(c, token) ==
    LedgerSum(ledger, { k \in DOMAIN ledger : /\ ledger[k].by = "deposit"
                                              /\ ledger[k].account = c
                                              /\ ledger[k].token = token })

ReleasedFor(c, token) ==
    LedgerSum(ledger, { k \in DOMAIN ledger : /\ ledger[k].by \in {"withdraw", "executeIntent"}
                                              /\ ledger[k].account = c
                                              /\ ledger[k].token = token })

(* C26: what a principal has withdrawn plus what executeIntent has spent    *)
(* from its account never exceeds what that principal has deposited of the  *)
(* token: no withdraw by c and no executeIntent for account c moves funds   *)
(* that another principal deposited.                                        *)
C26_OwnFundsOnly ==
    \A c \in Addrs : ReleasedFor(c, USDC) <= DepositedBy(c, USDC)

\* Bob, who deposited nothing, has withdrawn what Alice deposited
C26_TookAnothersDeposit ==
    /\ last.op = "withdraw" /\ last.sender = Bob /\ last.err = "ok"
    /\ DepositedBy(Bob, USDC) = 0
    /\ DepositedBy(Alice, USDC) = ReleasedFor(Bob, USDC)
    /\ balanceOf(ledger, USDC) = 0

---------------------------------------------------------------------------
(* C27: on the first spend attempt for an account (weekStart unset) the     *)
(* rollover step sets weekStart and monthStart to now, leaves weekSpent and *)
(* monthSpent 0 and rolls nothing else; an intent that passed the           *)
(* per-transaction check and the checks before the caps is not rejected by  *)
(* a cap on that attempt, and a commit leaves the window started now with   *)
(* the amount as both sums; the caps can reject from the next intent on.    *)
C27_FirstAttempt ==
    /\ [](\A a \in Addrs : spend[a].weekStart = 0 => spend[a] = ZeroWindow)
    /\ [][ (/\ last'.op = "executeIntent"
            /\ last'.intent.user # Null
            /\ spend[last'.intent.user].weekStart = 0)
             => LET a == last'.intent.user
                    amount == last'.intent.amount
                IN  /\ _rollWindowsIfNeeded(spend[a], now)
                          = [weekStart |-> now, weekSpent |-> 0,
                             monthStart |-> now, monthSpent |-> 0]
                    /\ last'.err \notin {"WeeklyCapExceeded", "MonthlyCapExceeded",
                                         "Panic"}
                    /\ last'.err \notin BeforeCaps
                         => last'.err \in {"ok", "TransferFailed"}
                    /\ last'.err = "ok"
                         => spend'[a] = [weekStart |-> now, weekSpent |-> amount,
                                         monthStart |-> now, monthSpent |-> amount]
                    /\ last'.err # "ok" => spend' = spend
      ]_vars

\* the first intent of an account commits with the whole weekly cap, at a
\* time later than the deployment
C27_Witness ==
    /\ last.op = "executeIntent" /\ last.err = "ok"
    /\ nonces[Alice] = 1
    /\ now > Genesis
    /\ last.intent.amount = policyOf[Alice].weeklyCap
    /\ spend[Alice] = [weekStart |-> now, weekSpent |-> last.intent.amount,
                       monthStart |-> now, monthSpent |-> last.intent.amount]

\* the next intent in that window is the one a cap rejects
C27_WitnessNext ==
    /\ last.op = "executeIntent" /\ last.err = "WeeklyCapExceeded"
    /\ nonces[Alice] = 1
    /\ spend[Alice].weekStart = now

---------------------------------------------------------------------------
\* the window of account a, as it counts at the current time, is over a cap
WeekOverCap(a) == WeekSpentAt(a, now) > policyOf[a].weeklyCap
MonthOverCap(a) == MonthSpentAt(a, now) > policyOf[a].monthlyCap

(* C28: setPolicy never alters the spend window, the nonce or the consumed  *)
(* set, so lowering a cap below what the window has accumulated leaves the  *)
(* window over the cap; while the week (month) is over its cap no           *)
(* executeIntent for the account commits, until that window rolls over, and *)
(* remainingWeekly (remainingMonthly) returns 0.                            *)
C28_OverCapBlocks ==
    /\ [](\A a \in Addrs : /\ WeekOverCap(a) => remainingWeekly(a) = 0
                           /\ MonthOverCap(a) => remainingMonthly(a) = 0)
    /\ [][
            /\ last'.op = "setPolicy" => UNCHANGED <<spend, nonces, intentUsed>>
            /\ (/\ last'.op = "executeIntent"
                /\ last'.intent.user # Null
                /\ WeekOverCap(last'.intent.user) \/ MonthOverCap(last'.intent.user))
                 => /\ last'.err # "ok"
                    /\ UNCHANGED <<storageVars, executed, ledger>>
            /\ (last'.op = "remaining" /\ WeekOverCap(last'.arg[1]))
                 => last'.arg[2] = 0
            /\ (last'.op = "remaining" /\ MonthOverCap(last'.arg[1]))
                 => last'.arg[3] = 0
      ]_vars

\* the weekly cap was lowered below the sum of the week and the intent is
\* refused for it
C28_Witness ==
    /\ last.op = "executeIntent" /\ last.err = "WeeklyCapExceeded"
    /\ policyOf[Alice] = Small
    /\ spend[Alice].weekSpent = 2
    /\ WeekOverCap(Alice)

\* the week has rolled over, the month is still over its cap
C28_WitnessMonth ==
    /\ last.op = "executeIntent" /\ last.err = "MonthlyCapExceeded"
    /\ policyOf[Alice] = Small
    /\ ~WeekOverCap(Alice) /\ MonthOverCap(Alice)

\* both windows have rolled over and the account spends again
C28_WitnessAfter ==
    /\ last.op = "executeIntent" /\ last.err = "ok"
    /\ policyOf[Alice] = Small
    /\ nonces[Alice] = 2
    /\ spend[Alice].monthStart = Genesis + ThirtyDays

\* the views report no room for an account over its caps
C28_WitnessView ==
    /\ last.op = "remaining"
    /\ last.arg = <<Alice, 0, 0>>
    /\ WeekOverCap(Alice) /\ MonthOverCap(Alice)

---------------------------------------------------------------------------
\* what the committed intents of account a executed at or after time from
\* amount to
SpentSince(a, from) ==
    SumAmounts({ k \in DOMAIN executed : /\ executed[k].user = a
                                         /\ executed[k].time >= from })

(* C29: in every reachable state weekSpent of an account is the sum of the  *)
(* amounts of its committed intents executed at or after the stored         *)
(* weekStart, and monthSpent the sum of those executed at or after the      *)
(* stored monthStart; weekStart and monthStart never exceed the current     *)
(* time and never decrease.                                                 *)
C29_WindowSums ==
    /\ [](\A a \in Addrs :
            /\ spend[a].weekSpent = SpentSince(a, spend[a].weekStart)
            /\ spend[a].monthSpent = SpentSince(a, spend[a].monthStart)
            /\ spend[a].weekStart <= now
            /\ spend[a].monthStart <= now)
    /\ [][ \A a \in Addrs : /\ spend'[a].weekStart >= spend[a].weekStart
                            /\ spend'[a].monthStart >= spend[a].monthStart ]_vars

\* the week has restarted and the month has not: the month counts commits
\* that the week no longer counts
C29_Witness ==
    /\ spend[Alice].weekStart > spend[Alice].monthStart
    /\ spend[Alice].weekSpent > 0
    /\ spend[Alice].monthSpent > spend[Alice].weekSpent
    /\ Len(executed) = 3

---------------------------------------------------------------------------
(* C30: every consumed intent hash of an account carries a nonce strictly   *)
(* smaller than the current nonce of the account, and was committed; the    *)
(* nonce of an account changes only by a committing executeIntent, which    *)
(* adds one; so an intent whose hash is consumed, submitted again, never    *)
(* reaches the consumed-set check: past the checks before the nonce it      *)
(* fails with StaleNonce, never with IntentAlreadyUsed.                     *)
C30_ConsumedBelowNonce ==
    /\ [](\A h \in intentUsed : /\ h[8] < nonces[h[2]]
                               /\ EventsOf(h) # {})
    /\ [][
            /\ \A a \in Addrs :
                 nonces'[a] # nonces[a]
                    => /\ last'.op = "executeIntent" /\ last'.err = "ok"
                       /\ last'.intent.user = a
                       /\ nonces'[a] = nonces[a] + 1
            /\ (last'.op = "executeIntent" /\ _hashIntent(last'.intent) \in intentUsed)
                 => /\ last'.err \in BeforeNonce \cup {"StaleNonce"}
                    /\ ReplayError(Storage, last'.intent) = "StaleNonce"
            /\ last'.op = "executeIntent" => last'.err # "IntentAlreadyUsed"
      ]_vars

\* the owner submits again the intent the account has committed: refused at
\* the nonce check
C30_Witness ==
    /\ last.op = "executeIntent"
    /\ last.sender = last.intent.user
    /\ _hashIntent(last.intent) \in intentUsed
    /\ last.intent.nonce < nonces[last.intent.user]
    /\ last.err = "StaleNonce"

---------------------------------------------------------------------------
(* SpecNull: intents for the owner's account and for the null account, sent *)
(* by every caller role with signatures that do not recover a signer.       *)

\* the intents: the one a client builds, the same for the null account, and
\* that one with a deadline that passes
NullIntents ==
    LET b == BaseIntent(Alice)
    IN  { b, [b EXCEPT !.user = Null], [b EXCEPT !.user = Null, !.deadline = Near] }

\* the signatures passed with intent i: none, too short, 65 bytes that recover
\* no signer, too long, the owner's over another amount, and the owner's
MalformedSigs(i) ==
    { EmptySig, ShortSig, JunkSig,
      LongSig(Alice, _hashIntent(i)),
      SignedBy(Alice, _hashIntent([i EXCEPT !.amount = i.amount + 1])) }

NextNull ==
    \/ \E p \in {Generous, SigOnly} : setPolicy(Alice, p)
    \/ setMerchantAllowed(Alice, Shop, TRUE)
    \/ setAgentAllowed(Alice, Agent, TRUE)
    \/ \E sender \in AuthSenders : \E i \in NullIntents :
         \E userSig \in MalformedSigs(i) \cup {SignedBy(Alice, _hashIntent(i))} :
            executeIntent(sender, i, userSig, TRUE)
    \/ Tick(Genesis + OneHour + 1)

SpecNull == Init /\ [][NextNull]_vars

\* the errors executeIntent can fail with
Errors ==
    BeforeCaps \cup {"WeeklyCapExceeded", "MonthlyCapExceeded", "Panic",
                     "TransferFailed"}

---------------------------------------------------------------------------
(* C31: a signature whose recovery fails and yields the null address never  *)
(* authorizes an intent.  An intent for the null account is rejected        *)
(* (Expired or InvalidIntent) whatever the signature, before any            *)
(* verification, so every commit is for a non-null account and a signature  *)
(* that verifies in it recovers that non-null owner; a call that passes a   *)
(* non-empty signature whose recovery fails never commits and, past the     *)
(* earlier checks, fails with Unauthorized; verification of a malformed     *)
(* signature answers false and the call ends with one of the contract's own *)
(* errors.                                                                  *)
C31_NullSignerNeverAuthorizes ==
    [][ last'.op = "executeIntent"
            => LET i == last'.intent
                   sig == last'.userSig
                   recovered == ecrecover(_hashIntent(i), sig)
               IN  /\ i.user = Null
                        => /\ last'.err = IF now <= i.deadline THEN "InvalidIntent"
                                          ELSE "Expired"
                           /\ UNCHANGED <<storageVars, executed, ledger>>
                   /\ last'.err = "ok"
                        => /\ i.user # Null
                           /\ sig.len > 0 => recovered = i.user
                           /\ _verifyUserSig(i, sig) => recovered # Null
                   /\ (sig.len > 0 /\ recovered = Null)
                        => /\ last'.err # "ok"
                           /\ last'.err \notin BeforeAuth => last'.err = "Unauthorized"
                   /\ (i.user # Null /\ sig \in MalformedSigs(i))
                        => /\ _verifyUserSig(i, sig) = FALSE
                           /\ last'.err \in Errors \cup {"ok"}
                           /\ (sig.len > 0 /\ last'.err \notin BeforeAuth)
                                => last'.err = "Unauthorized"
      ]_vars

\* an intent for the null account comes with 65 bytes that recover no signer:
\* the recovered address equals the claimed one, and the call is rejected
\* for the account before verification
C31_Witness ==
    /\ last.op = "executeIntent"
    /\ last.intent.user = Null
    /\ last.userSig = JunkSig
    /\ ecrecover(_hashIntent(last.intent), last.userSig) = last.intent.user
    /\ last.err = "InvalidIntent"
    /\ policyOf[Alice] = SigOnly

\* the same bytes with an intent for the owner's account, from a stranger
\* and from the owner: refused at the authorization
C31_WitnessStranger ==
    /\ last.op = "executeIntent"
    /\ last.intent.user = Alice /\ last.sender = Bob
    /\ last.userSig = JunkSig
    /\ last.err = "Unauthorized"

C31_WitnessOwner ==
    /\ last.op = "executeIntent"
    /\ last.intent.user = Alice /\ last.sender = Alice
    /\ last.userSig = JunkSig
    /\ policyOf[Alice] = Generous
    /\ last.err = "Unauthorized"

\* the null-account intent after its deadline: Expired comes first
C31_WitnessExpired ==
    /\ last.op = "executeIntent"
    /\ last.intent.user = Null
    /\ last.err = "Expired"

===========================================================================
